---- MODULE Spec2Model ----
(***************************************************************************)
(* Verification model of the bookkeeping layer of bar181/openai-agents:    *)
(* the MultiToolAgent state machine and context, the HTTP routers and      *)
(* their API-key gate, the trace processor, the mock database, the LLM     *)
(* provider adapters, the recommender and the handoff triage / filters.    *)
(*                                                                         *)
(* Every subsystem has its own specification (SpecAgent, SpecHttp, ...).   *)
(* A subsystem's actions leave the variables of the other subsystems       *)
(* unchanged.                                                              *)
(***************************************************************************)
EXTENDS Integers, Sequences, FiniteSets, TLC

VARIABLES
    \* ---- MultiToolAgent (module4 multi_tool_agent.py, core.py) ----
    _current_state,     \* StateMachine._current_state
    _state_history,     \* StateMachine._state_history
    _context,           \* ContextManager._context (dict: key -> value)
    run_pc,             \* per request: position of MultiToolAgent.run
    run_input,          \* per request: [message, context] given to run()
    run_tools,          \* per request: number of tool calls made so far
    run_result,         \* per request: the dict returned by run()
    \* ---- HTTP routers and the API-key dependency ----
    API_KEY,            \* app.config.API_KEY
    http_pc,            \* position of the request being served
    http_req,           \* [endpoint, api_key, body] of the request being served
    http_outcome,       \* what the provider agent did inside the handler
    http_handler_ran,   \* TRUE once the endpoint's handler body has run
    http_resp,          \* [status_code, detail] sent back
    \* ---- OrchestrationTraceProcessor (module5 trace_processor.py) ----
    traces,             \* self.traces: ordered dict, a sequence of [key, value]
    trace_ended,        \* history: ids of traces ended since the last clear
    trace_call,         \* the last call made on the processor and its result
    \* ---- mock database (module5 database_tools.py, tool_adapter.py) ----
    _mock_db,           \* database_tools._mock_db
    _deleted_keys,      \* tool_adapter._deleted_keys
    db_stored,          \* history: per interface, what the calls so far stored
    db_call,            \* the last database call and its result
    \* ---- LLM provider adapters (llm_providers/*.py) ----
    prov_call,          \* the last process_prompt call and what came of it
    \* ---- RecommenderAgent (recommender_agent.py) ----
    rec_call,           \* the last recommendation request and its result
    \* ---- HandoffAgent (handoff_agent.py) ----
    triage_call,        \* the last determine_agent_type call and its result
    filter_call,        \* the last message-filter call and its result
    \* ---- length guardrails (module5 input_guardrails.py, output_guardrails.py) ----
    guard_call,         \* the last length-guardrail call and its GuardrailFunctionOutput
    \* ---- mock cache (module3 api_tools.py, module5 tool_adapter.py) ----
    now,                \* time.time(), in whole ticks
    _cache,             \* _Cache._cache: key -> [value, expires]
    cache_sets,         \* history: key -> the latest cache_set call made for it
    cache_call,         \* the last cache call and its result
    \* ---- mock rate limiter (module3 api_tools.py, module5 tool_adapter.py) ----
    rl_now,             \* time.time() as seen by the rate limiter, in seconds
    _request_counts,    \* _RateLimiter._request_counts: key -> list of timestamps
    rl_seen,            \* history: the keys a check or request was made for so far
    rl_call,            \* the last rate-limiter call and its result
    rl_rejected,        \* history: url -> requests answered 429 so far
    \* ---- StreamItemsAgent.stream_items (module3 stream_items_agent.py) ----
    stream_pc,          \* position of the stream_items generator
    stream_req,         \* the count argument of the request: given or None
    stream_count,       \* the local variable count
    stream_items_list,  \* the local variable items (each item is its line number)
    stream_events,      \* the events yielded so far
    \* ---- BaseTool.execute of the mock tool classes (module3 and module5 tools) ----
    tool_call,          \* the last execute(**kwargs) call of a tool class and how it ended
    \* ---- StateMachine used on its own (module4 core.py) ----
    sm_calls,           \* history: the number of transition_to calls made
    sm_view,            \* the list a caller got from state_history, and whether it is the machine's own list
    \* ---- guardrail endpoints (module5 orchestration_router.py) ----
    ge_call,            \* the last guardrail-endpoint request: what happened inside and the response
    \* ---- MultiToolAgent construction (multi_tool_agent.py, advanced_router.py) ----
    mt_agent,           \* the MultiToolAgent built from a configuration: instructions and SDK agent tools
    \* ---- format_trace_for_display (trace_processor.py) ----
    fmt                 \* the run of format_trace_for_display: the record's spans, pending _format_span calls, span lines written

agentVars == <<_current_state, _state_history, _context,
               run_pc, run_input, run_tools, run_result>>

httpVars == <<API_KEY, http_pc, http_req, http_outcome, http_handler_ran, http_resp>>

traceVars == <<traces, trace_ended, trace_call>>

dbVars == <<_mock_db, _deleted_keys, db_stored, db_call>>

provVars == <<prov_call>>
recVars == <<rec_call>>
triageVars == <<triage_call>>
filterVars == <<filter_call>>
guardVars == <<guard_call>>
cacheVars == <<now, _cache, cache_sets, cache_call>>
rateVars == <<rl_now, _request_counts, rl_seen, rl_call, rl_rejected>>
streamVars == <<stream_pc, stream_req, stream_count, stream_items_list, stream_events>>
toolVars == <<tool_call>>
machineVars == <<sm_calls, sm_view>>
gendpointVars == <<ge_call>>
multiVars == <<mt_agent>>
formatVars == <<fmt>>

vars == <<agentVars, httpVars, traceVars, dbVars, provVars, recVars,
          triageVars, filterVars, guardVars, cacheVars, rateVars, streamVars,
          toolVars, machineVars, gendpointVars, multiVars, formatVars>>

notAgentVars == <<httpVars, traceVars, dbVars, provVars, recVars, triageVars,
                  filterVars, guardVars, cacheVars, rateVars, streamVars,
                  toolVars, machineVars, gendpointVars, multiVars, formatVars>>
notHttpVars == <<agentVars, traceVars, dbVars, provVars, recVars, triageVars,
                 filterVars, guardVars, cacheVars, rateVars, streamVars,
                 toolVars, machineVars, gendpointVars, multiVars, formatVars>>
notTraceVars == <<agentVars, httpVars, dbVars, provVars, recVars, triageVars,
                  filterVars, guardVars, cacheVars, rateVars, streamVars,
                  toolVars, machineVars, gendpointVars, multiVars, formatVars>>
notDbVars == <<agentVars, httpVars, traceVars, provVars, recVars, triageVars,
               filterVars, guardVars, cacheVars, rateVars, streamVars,
               toolVars, machineVars, gendpointVars, multiVars, formatVars>>
notProvVars == <<agentVars, httpVars, traceVars, dbVars, recVars, triageVars,
                 filterVars, guardVars, cacheVars, rateVars, streamVars,
                 toolVars, machineVars, gendpointVars, multiVars, formatVars>>
notRecVars == <<agentVars, httpVars, traceVars, dbVars, provVars, triageVars,
                filterVars, guardVars, cacheVars, rateVars, streamVars,
                toolVars, machineVars, gendpointVars, multiVars, formatVars>>
notTriageVars == <<agentVars, httpVars, traceVars, dbVars, provVars, recVars,
                   filterVars, guardVars, cacheVars, rateVars, streamVars,
                   toolVars, machineVars, gendpointVars, multiVars, formatVars>>
notFilterVars == <<agentVars, httpVars, traceVars, dbVars, provVars, recVars,
                   triageVars, guardVars, cacheVars, rateVars, streamVars,
                   toolVars, machineVars, gendpointVars, multiVars, formatVars>>
notGuardVars == <<agentVars, httpVars, traceVars, dbVars, provVars, recVars,
                  triageVars, filterVars, cacheVars, rateVars, streamVars,
                  toolVars, machineVars, gendpointVars, multiVars, formatVars>>
notCacheVars == <<agentVars, httpVars, traceVars, dbVars, provVars, recVars,
                  triageVars, filterVars, guardVars, rateVars, streamVars,
                  toolVars, machineVars, gendpointVars, multiVars, formatVars>>
notRateVars == <<agentVars, httpVars, traceVars, dbVars, provVars, recVars,
                 triageVars, filterVars, guardVars, cacheVars, streamVars,
                 toolVars, machineVars, gendpointVars, multiVars, formatVars>>
notStreamVars == <<agentVars, httpVars, traceVars, dbVars, provVars, recVars,
                   triageVars, filterVars, guardVars, cacheVars, rateVars,
                   toolVars, machineVars, gendpointVars, multiVars, formatVars>>
notToolVars == <<agentVars, httpVars, traceVars, dbVars, provVars, recVars,
                 triageVars, filterVars, guardVars, cacheVars, rateVars,
                 streamVars, machineVars, gendpointVars, multiVars, formatVars>>
notMachineVars == <<agentVars, httpVars, traceVars, dbVars, provVars,
                    recVars, triageVars, filterVars, guardVars, cacheVars,
                    rateVars, streamVars, toolVars, gendpointVars, multiVars,
                    formatVars>>
notGendpointVars == <<agentVars, httpVars, traceVars, dbVars, provVars,
                      recVars, triageVars, filterVars, guardVars, cacheVars,
                      rateVars, streamVars, toolVars, machineVars, multiVars,
                      formatVars>>
notMultiVars == <<agentVars, httpVars, traceVars, dbVars, provVars, recVars,
                  triageVars, filterVars, guardVars, cacheVars, rateVars,
                  streamVars, toolVars, machineVars, gendpointVars, formatVars>>
notFormatVars == <<agentVars, httpVars, traceVars, dbVars, provVars, recVars,
                   triageVars, filterVars, guardVars, cacheVars, rateVars,
                   streamVars, toolVars, machineVars, gendpointVars, multiVars>>

----------------------------------------------------------------------------
(* Generic helpers for Python dicts, modelled as functions whose DOMAIN is *)
(* the set of keys present.                                                *)

EmptyDict == [k \in {} |-> TRUE]

DictSet(d, key, value) ==
    [k \in (DOMAIN d) \cup {key} |-> IF k = key THEN value ELSE d[k]]

DictDel(d, key) == [k \in (DOMAIN d) \ {key} |-> d[k]]

None == "None"

DictGet(d, key, default) == IF key \in DOMAIN d THEN d[key] ELSE default

----------------------------------------------------------------------------
(* MultiToolAgent: AgentState, StateMachine, ContextManager, hooks, run()  *)

MaxRuns == 2          \* requests served by the shared agent instance
MaxToolCalls == 1     \* tool calls the SDK makes within one run

Requests == 1 .. MaxRuns

INITIALIZING == "initializing"
PROCESSING == "processing"
EXECUTING_TOOL == "executing_tool"
ERROR == "error"
COMPLETED == "completed"

AgentState == {INITIALIZING, PROCESSING, EXECUTING_TOOL, ERROR, COMPLETED}

\* StateMachine.can_transition_to: the static table of valid transitions
valid_transitions(state) ==
    CASE state = INITIALIZING -> {PROCESSING, ERROR}
      [] state = PROCESSING -> {EXECUTING_TOOL, COMPLETED, ERROR}
      [] state = EXECUTING_TOOL -> {PROCESSING, ERROR}
      [] state = ERROR -> {INITIALIZING, PROCESSING}
      [] state = COMPLETED -> {INITIALIZING}
      [] OTHER -> {}

can_transition_to(current, new_state) == new_state \in valid_transitions(current)

\* StateMachine.transition_to: unconditional assignment plus history append
transition_to(new_state) ==
    /\ _current_state' = new_state
    /\ _state_history' = Append(_state_history, new_state)

\* ContextManager.store_context, applied to a dict value
store_context(ctx, key, value) == DictSet(ctx, key, value)

\* ContextManager.get_all_context: a (shallow) copy of the dict
get_all_context(ctx) == ctx

\* Inputs of the /multi-tool request
Messages == {"m1", "m2"}
CtxKeys == {"session_id", "input"}
CtxVals == {"c1"}
ToolNames == {"echo"}

\* request.context: None (present = FALSE), or a dict over some of the keys
NoContext == [present |-> FALSE, items |-> EmptyDict]

RequestContexts ==
    {NoContext} \cup
    {[present |-> TRUE, items |-> d] : d \in UNION {[S -> CtxVals] : S \in SUBSET CtxKeys}}

NoInput == [message |-> None, context |-> NoContext]
NoResult == [final_output |-> <<>>, context |-> EmptyDict]

\* the loop "for key, value in context.items(): store_context(key, value)"
\* guarded by "if context:", which skips None and the empty dict
StoreAll(ctx, given) ==
    IF (~given.present) \/ DOMAIN given.items = {} THEN ctx
    ELSE [k \in (DOMAIN ctx) \cup (DOMAIN given.items) |->
             IF k \in DOMAIN given.items THEN given.items[k] ELSE ctx[k]]

\* MultiToolAgent.run up to the await of Runner.run: store the request
\* context, store the input, transition to PROCESSING.
\* Requests are numbered in arrival order.  Under SpecAgent the runs of the
\* shared instance are consecutive: a run starts after the earlier ones returned.
Consecutive(r) == \A q \in Requests : q < r => run_pc[q] = "done"

run_until_await(r, message, context) ==
    /\ run_input' = [run_input EXCEPT ![r] = [message |-> message, context |-> context]]
    /\ _context' = store_context(StoreAll(_context, context), "input", message)
    /\ transition_to(PROCESSING)
    /\ run_pc' = [run_pc EXCEPT ![r] = "started"]
    /\ UNCHANGED <<run_tools, run_result>>
    /\ UNCHANGED notAgentVars

RunBegin(r, message, context) ==
    /\ run_pc[r] = "idle"
    /\ Consecutive(r)
    /\ run_until_await(r, message, context)

\* The same statements when the endpoint serves a request while an earlier
\* one is still awaiting Runner.run: execute_multi_tool_agent is a coroutine
\* and the agent is the module-level instance, so a run may begin at any
\* await point of another run.
RunBeginConcurrent(r, message, context) ==
    /\ run_pc[r] = "idle"
    /\ \A q \in Requests : q < r => run_pc[q] # "idle"
    /\ run_until_await(r, message, context)

\* MultiToolAgentHooks.on_agent_start
on_agent_start(r) ==
    /\ run_pc[r] = "started"
    /\ transition_to(INITIALIZING)
    /\ _context' = store_context(_context, "agent_start_time", "time")
    /\ run_pc' = [run_pc EXCEPT ![r] = "agent"]
    /\ UNCHANGED <<run_input, run_tools, run_result>>
    /\ UNCHANGED notAgentVars

\* MultiToolAgentHooks.on_tool_start
on_tool_start(r, tool) ==
    /\ run_pc[r] = "agent"
    /\ run_tools[r] < MaxToolCalls
    /\ transition_to(EXECUTING_TOOL)
    /\ _context' = store_context(_context, "current_tool", tool)
    /\ run_pc' = [run_pc EXCEPT ![r] = "tool"]
    /\ run_tools' = [run_tools EXCEPT ![r] = @ + 1]
    /\ UNCHANGED <<run_input, run_result>>
    /\ UNCHANGED notAgentVars

\* MultiToolAgentHooks.on_tool_end
on_tool_end(r) ==
    /\ run_pc[r] = "tool"
    /\ transition_to(PROCESSING)
    /\ LET tool_results == DictGet(_context, "tool_results", EmptyDict)
           tool == DictGet(_context, "current_tool", None)
       IN _context' = store_context(_context, "tool_results",
                                    DictSet(tool_results, tool, "tool_result"))
    /\ run_pc' = [run_pc EXCEPT ![r] = "agent"]
    /\ UNCHANGED <<run_input, run_tools, run_result>>
    /\ UNCHANGED notAgentVars

on_agent_end_without_transition(r) ==
    /\ run_pc[r] = "agent"
    /\ _context' = store_context(store_context(_context, "agent_end_time", "time"),
                                 "agent_output", "output")
    /\ run_pc' = [run_pc EXCEPT ![r] = "ended"]
    /\ UNCHANGED <<_current_state, _state_history, run_input, run_tools, run_result>>
    /\ UNCHANGED notAgentVars

\* MultiToolAgentHooks.on_agent_end
on_agent_end(r) ==
    /\ run_pc[r] = "agent"
    /\ transition_to(COMPLETED)
    /\ _context' = store_context(store_context(_context, "agent_end_time", "time"),
                                 "agent_output", "output")
    /\ run_pc' = [run_pc EXCEPT ![r] = "ended"]
    /\ UNCHANGED <<run_input, run_tools, run_result>>
    /\ UNCHANGED notAgentVars

\* MultiToolAgent.run after Runner.run returned: store the result, return
RunReturn(r) ==
    /\ run_pc[r] = "ended"
    /\ _context' = store_context(_context, "result", "run_result")
    /\ run_result' = [run_result EXCEPT ![r] =
                         [final_output |-> <<"output">>,
                          context |-> get_all_context(_context')]]
    /\ run_pc' = [run_pc EXCEPT ![r] = "done"]
    /\ UNCHANGED <<_current_state, _state_history, run_input, run_tools>>
    /\ UNCHANGED notAgentVars

\* f"Error during agent execution: {str(e)}"
error_message == "Error during agent execution: boom"

\* MultiToolAgent.run, except branch: Runner.run raised
RunExcept(r) ==
    /\ run_pc[r] \in {"started", "agent", "tool"}
    /\ transition_to(ERROR)
    /\ _context' = store_context(_context, "error", error_message)
    /\ run_result' = [run_result EXCEPT ![r] =
                         [final_output |-> <<"Error: ", error_message>>,
                          context |-> get_all_context(_context')]]
    /\ run_pc' = [run_pc EXCEPT ![r] = "done"]
    /\ UNCHANGED <<run_input, run_tools>>
    /\ UNCHANGED notAgentVars

NextAgent ==
    \/ \E r \in Requests, m \in Messages, c \in RequestContexts : RunBegin(r, m, c)
    \/ \E r \in Requests : on_agent_start(r)
    \/ \E r \in Requests, t \in ToolNames : on_tool_start(r, t)
    \/ \E r \in Requests : on_tool_end(r)
    \/ \E r \in Requests : on_agent_end(r)
    \/ \E r \in Requests : RunReturn(r)
    \/ \E r \in Requests : RunExcept(r)

\* Requests handled concurrently by the event loop
NextAgentConcurrent ==
    \/ \E r \in Requests, m \in Messages, c \in RequestContexts :
          RunBeginConcurrent(r, m, c)
    \/ \E r \in Requests : on_agent_start(r)
    \/ \E r \in Requests, t \in ToolNames : on_tool_start(r, t)
    \/ \E r \in Requests : on_tool_end(r)
    \/ \E r \in Requests : on_agent_end(r)
    \/ \E r \in Requests : RunReturn(r)
    \/ \E r \in Requests : RunExcept(r)

----------------------------------------------------------------------------
(* HTTP routers: endpoints, the API-key dependency, the LLM handlers       *)

\* The X-API-KEY header of a request: absent (None), or a string
ApiKeyHeaders == {None, "", "secret", "wrong"}

\* Values the deployment can configure: os.getenv("API_KEY", "")
ConfiguredKeys == {"", "secret"}

\* The body of a request as the endpoint's request model sees it
Bodies == {"valid", "invalid"}

verify_api_key_any_header(api_key) == ~(api_key = None)

\* dependencies.verify_api_key: TRUE when the request passes, FALSE when it
\* raises HTTPException(401, "Unauthorized")
verify_api_key(api_key) == ~(api_key = None \/ api_key # API_KEY)

\* The route table.  gated: the decorator declares
\* dependencies=[Depends(verify_api_key)];  reaches: what the handler touches.
Route(router, path, gated, reaches) ==
    [router |-> router, path |-> path, gated |-> gated, reaches |-> reaches]

OrchestrationRoutes ==
    { Route("orchestration", "/input-guardrails", FALSE, "guardrail"),
      Route("orchestration", "/output-guardrails", FALSE, "guardrail"),
      Route("orchestration", "/guardrails/test-input", FALSE, "guardrail"),
      Route("orchestration", "/guardrails/test-output", FALSE, "guardrail"),
      Route("orchestration", "/handoffs", FALSE, "handoff"),
      Route("orchestration", "/handoffs/triage", FALSE, "handoff"),
      Route("orchestration", "/traces", FALSE, "trace"),
      Route("orchestration", "/traces/{trace_id}", FALSE, "trace"),
      Route("orchestration", "/traces/{trace_id}/formatted", FALSE, "trace"),
      Route("orchestration", "DELETE /traces", FALSE, "trace"),
      Route("orchestration", "/trace-status", FALSE, "trace") }

LlmRoutes ==
    { Route("llm", "/openai", FALSE, "llm"),
      Route("llm", "/gemini", FALSE, "llm"),
      Route("llm", "/requestry", FALSE, "llm"),
      Route("llm", "/openrouter", FALSE, "llm"),
      Route("llm", "/recommend-model", FALSE, "llm") }

AdvancedRoutes ==
    { Route("advanced", "/generic-lifecycle", TRUE, "agent"),
      Route("advanced", "/multi-tool", TRUE, "agent") }

BasicRoutes ==
    { Route("basic", "/lifecycle/initialize", TRUE, "agent"),
      Route("basic", "/lifecycle/execute", TRUE, "agent"),
      Route("basic", "/lifecycle/terminate", TRUE, "agent"),
      Route("basic", "/dynamic-prompt/update", TRUE, "agent"),
      Route("basic", "/dynamic-prompt/execute", TRUE, "agent"),
      Route("basic", "/stream-text", TRUE, "agent"),
      Route("basic", "/stream-items", TRUE, "agent") }

StoryRoutes ==
    { Route("story", "/baseline", TRUE, "agent"),
      Route("story", "/custom", TRUE, "agent"),
      Route("story", "/advanced", TRUE, "agent"),
      Route("story_telling", "/story", TRUE, "agent"),
      Route("hello_world", "/hello", TRUE, "agent"),
      Route("deterministic", "/deterministic", TRUE, "agent") }

RootRoutes == { Route("main", "/", FALSE, "nothing") }

Routes == OrchestrationRoutes \cup LlmRoutes \cup AdvancedRoutes \cup BasicRoutes
          \cup StoryRoutes \cup RootRoutes

\* What the provider agent does inside an LLM handler: its constructor raises
\* ValueError (missing provider key), process_prompt raises, or process_prompt
\* returns a result dict with the given status.
LlmOutcomes == {"ctor_ValueError", "raises", "error", "success"}
AgentMessages == {"API error: boom"}
NoOutcome == [kind |-> None, message |-> None]

Response(status_code, detail) == [status_code |-> status_code, detail |-> detail]
NoResponse == Response(0, <<>>)

\* str(HTTPException(status_code, detail)) as starlette renders it
StrHTTPException(status_code, detail) == <<status_code, ": ">> \o detail

\* llm_router.openai_endpoint: no try/except around the agent
openai_endpoint(outcome) ==
    CASE outcome.kind = "error" -> Response(400, <<outcome.message>>)
      [] outcome.kind = "success" -> Response(200, <<outcome.message>>)
      [] OTHER -> Response(500, <<"Internal Server Error">>)

\* llm_router.gemini_endpoint / requestry_endpoint / openrouter_endpoint:
\*   try: ... if result["status"] == "error": raise HTTPException(400, ...)
\*   except ValueError: 500    except Exception: 500 "Unexpected error: ..."
\* HTTPException is an Exception, so the 400 raised inside the try block is
\* caught by the last handler.
provider_endpoint(outcome) ==
    CASE outcome.kind = "ctor_ValueError" -> Response(500, <<outcome.message>>)
      [] outcome.kind = "raises" ->
            Response(500, <<"Unexpected error: ", outcome.message>>)
      [] outcome.kind = "error" ->
            Response(500, <<"Unexpected error: ">>
                          \o StrHTTPException("400", <<outcome.message>>))
      [] OTHER -> Response(200, <<outcome.message>>)

\* llm_router.recommend_model_endpoint: a single "except Exception"
recommend_model_endpoint(outcome) ==
    CASE outcome.kind \in {"ctor_ValueError", "raises"} ->
            Response(500, <<"Unexpected error: ", outcome.message>>)
      [] outcome.kind = "error" ->
            Response(500, <<"Unexpected error: ">>
                          \o StrHTTPException("400", <<outcome.message>>))
      [] OTHER -> Response(200, <<outcome.message>>)

LlmHandler(path, outcome) ==
    CASE path = "/openai" -> openai_endpoint(outcome)
      [] path = "/recommend-model" -> recommend_model_endpoint(outcome)
      [] OTHER -> provider_endpoint(outcome)

\* A request arrives and is routed
HttpReceive(endpoint, api_key, body) ==
    /\ http_pc \in {"idle", "done"}
    /\ endpoint.reaches \in {"trace", "nothing"} => body = "valid"
    /\ http_pc' = "received"
    /\ http_req' = [endpoint |-> endpoint, api_key |-> api_key, body |-> body]
    /\ http_outcome' = NoOutcome
    /\ http_handler_ran' = FALSE
    /\ http_resp' = NoResponse
    /\ UNCHANGED API_KEY
    /\ UNCHANGED notHttpVars

\* The framework solves the route's declared dependencies, then validates the
\* body against the request model, then calls the handler.  An HTTPException
\* raised by a dependency ends the request there.
HttpSolveDependencies ==
    /\ http_pc = "received"
    /\ IF http_req.endpoint.gated /\ ~verify_api_key(http_req.api_key)
         THEN /\ http_pc' = "done"
              /\ http_resp' = Response(401, <<"Unauthorized">>)
         ELSE IF http_req.body = "invalid"
         THEN /\ http_pc' = "done"
              /\ http_resp' = Response(422, <<"validation error">>)
         ELSE /\ http_pc' = "handler"
              /\ UNCHANGED http_resp
    /\ UNCHANGED <<API_KEY, http_req, http_outcome, http_handler_ran>>
    /\ UNCHANGED notHttpVars

\* Handler body of an LLM endpoint
HttpHandleLlm(kind, message) ==
    /\ http_pc = "handler"
    /\ http_req.endpoint.reaches = "llm"
    /\ http_handler_ran' = TRUE
    /\ http_outcome' = [kind |-> kind, message |-> message]
    /\ http_resp' = LlmHandler(http_req.endpoint.path, http_outcome')
    /\ http_pc' = "done"
    /\ UNCHANGED <<API_KEY, http_req>>
    /\ UNCHANGED notHttpVars

\* Handler body of every other endpoint (its result is not modelled here)
HttpHandleOther ==
    /\ http_pc = "handler"
    /\ http_req.endpoint.reaches # "llm"
    /\ http_handler_ran' = TRUE
    /\ http_resp' = Response(200, <<"handled">>)
    /\ http_pc' = "done"
    /\ UNCHANGED <<API_KEY, http_req, http_outcome>>
    /\ UNCHANGED notHttpVars

NextHttp ==
    \/ \E e \in Routes, k \in ApiKeyHeaders, b \in Bodies : HttpReceive(e, k, b)
    \/ HttpSolveDependencies
    \/ \E kind \in LlmOutcomes, m \in AgentMessages : HttpHandleLlm(kind, m)
    \/ HttpHandleOther

----------------------------------------------------------------------------
(* OrchestrationTraceProcessor                                             *)

MaxSpans == 1         \* spans carried by one trace

TraceIds == {"t1", "t2"}
SpanIds == {"s1", "s2"}

\* A span as the SDK hands it over
Spans == [span_id : SpanIds, parent_id : SpanIds \cup {None},
          start_time : {1}, end_time : {2}]

SpanLists == UNION {[1 .. n -> Spans] : n \in 0 .. MaxSpans}

\* A trace as the SDK hands it over; loggable = FALSE when json.dumps of the
\* stored record (or the lookup of the log level) raises
Traces == [trace_id : TraceIds, start_time : {1}, end_time : {2},
           spans : SpanLists, loggable : BOOLEAN]

\* OrchestrationTraceProcessor._process_span
_process_span(span) ==
    [span_id |-> span.span_id,
     parent_id |-> span.parent_id,
     start_time |-> span.start_time,
     end_time |-> span.end_time,
     duration_ms |-> (span.end_time - span.start_time) * 1000]

\* The record process_trace builds
TraceRecord(trace) ==
    [trace_id |-> trace.trace_id,
     start_time |-> trace.start_time,
     end_time |-> trace.end_time,
     duration_ms |-> (trace.end_time - trace.start_time) * 1000,
     spans |-> [i \in 1 .. Len(trace.spans) |-> _process_span(trace.spans[i])]]

NoTrace == [trace_id |-> None, start_time |-> 0, end_time |-> 0,
            duration_ms |-> 0, spans |-> <<>>]

\* Ordered-dict assignment d[key] = value: replace in place or append
ODictKeys(d) == {d[i].key : i \in 1 .. Len(d)}

ODictSet(d, key, value) ==
    IF key \in ODictKeys(d)
      THEN [i \in 1 .. Len(d) |-> IF d[i].key = key
                                    THEN [key |-> key, value |-> value]
                                    ELSE d[i]]
      ELSE Append(d, [key |-> key, value |-> value])

\* OrchestrationTraceProcessor.process_trace: the store at lines 67-74
process_trace(d, trace) == ODictSet(d, trace.trace_id, TraceRecord(trace))

\* OrchestrationTraceProcessor.get_trace: self.traces.get(trace_id)
get_trace(d, trace_id) ==
    IF trace_id \in ODictKeys(d)
      THEN (CHOOSE e \in {d[i] : i \in 1 .. Len(d)} : e.key = trace_id).value
      ELSE NoTrace

\* OrchestrationTraceProcessor.get_all_traces: list(self.traces.values())
get_all_traces(d) == [i \in 1 .. Len(d) |-> d[i].value]

\* a clear that leaves the entries in place
clear_traces_keeps(d) == d

\* OrchestrationTraceProcessor.clear_traces: self.traces.clear()
clear_traces(d) == <<>>

NoCall == [op |-> None, raised |-> FALSE, one |-> NoTrace, all |-> <<>>]

\* on_trace_end -> process_trace; the logging step may raise after the store
on_trace_end(trace) ==
    /\ traces' = process_trace(traces, trace)
    /\ trace_ended' = trace_ended \cup {trace.trace_id}
    /\ trace_call' = [NoCall EXCEPT !.op = "on_trace_end", !.raised = ~trace.loggable]
    /\ UNCHANGED notTraceVars

TraceGet(trace_id) ==
    /\ trace_call' = [NoCall EXCEPT !.op = "get_trace", !.one = get_trace(traces, trace_id)]
    /\ UNCHANGED <<traces, trace_ended>>
    /\ UNCHANGED notTraceVars

TraceGetAll ==
    /\ trace_call' = [NoCall EXCEPT !.op = "get_all_traces", !.all = get_all_traces(traces)]
    /\ UNCHANGED <<traces, trace_ended>>
    /\ UNCHANGED notTraceVars

TraceClear ==
    /\ traces' = clear_traces(traces)
    /\ trace_ended' = {}
    /\ trace_call' = [NoCall EXCEPT !.op = "clear_traces"]
    /\ UNCHANGED notTraceVars

\* OrchestrationTraceProcessor.shutdown: calls clear_traces
TraceShutdown ==
    /\ traces' = clear_traces(traces)
    /\ trace_ended' = {}
    /\ trace_call' = [NoCall EXCEPT !.op = "shutdown"]
    /\ UNCHANGED notTraceVars

NextTrace ==
    \/ \E t \in Traces : on_trace_end(t)
    \/ \E id \in TraceIds : TraceGet(id)
    \/ TraceGetAll
    \/ TraceClear
    \/ TraceShutdown

----------------------------------------------------------------------------
(* Mock database: the function tools, DatabaseTool.execute and the         *)
(* FunctionToolAdapter wrapper the tests call as tool.function(...)        *)

DbKeys == {"test_key", "k2"}
DbValues == {"test_value", "v2"}
DbOperations == {"store", "retrieve", "list", "delete", "clear", "unknown"}

\* ToolResult(success, data, error)
ToolResult(success, data, error) == [success |-> success, data |-> data, error |-> error]

\* database_tools.store_data: _mock_db[key] = value; return True
store_data(db, key, value) == [db |-> DictSet(db, key, value), result |-> TRUE]

\* database_tools.retrieve_data: _mock_db.get(key)
retrieve_data(db, key) == DictGet(db, key, None)

\* database_tools.list_keys
list_keys(db) == DOMAIN db

\* database_tools.delete_data
delete_data(db, key) ==
    IF key \in DOMAIN db THEN [db |-> DictDel(db, key), result |-> TRUE]
                         ELSE [db |-> db, result |-> FALSE]

\* database_tools.clear_database
clear_database(db) == [db |-> EmptyDict, result |-> TRUE]

\* DatabaseTool.execute(**kwargs).  key / value = None stand for a keyword
\* that was not passed (kwargs["key"] raises KeyError, caught below).
DatabaseTool_execute(db, operation, key, value) ==
    LET failed == [db |-> db,
                   result |-> ToolResult(FALSE, None, "Error executing database tool")]
    IN CASE operation = "store" ->
              IF key = None \/ value = None THEN failed
              ELSE LET r == store_data(db, key, value)
                   IN [db |-> r.db,
                       result |-> ToolResult(r.result, [stored |-> r.result], None)]
         [] operation = "retrieve" ->
              IF key = None THEN failed
              ELSE [db |-> db,
                    result |-> ToolResult(TRUE, retrieve_data(db, key), None)]
         [] operation = "list" ->
              [db |-> db, result |-> ToolResult(TRUE, list_keys(db), None)]
         [] operation = "delete" ->
              IF key = None THEN failed
              ELSE LET r == delete_data(db, key)
                   IN [db |-> r.db,
                       result |-> ToolResult(r.result, [deleted |-> r.result], None)]
         [] operation = "clear" ->
              LET r == clear_database(db)
              IN [db |-> r.db,
                  result |-> ToolResult(r.result, [cleared |-> r.result], None)]
         [] OTHER -> [db |-> db,
                      result |-> ToolResult(FALSE, None, "Unknown operation")]

\* FunctionToolAdapter wrapper, the branches for the database tools: they
\* never touch _mock_db, only the module-level set _deleted_keys.
adapter_clear_database(deleted) ==
    [deleted |-> {}, result |-> ToolResult(TRUE, None, None)]

adapter_store_data(deleted, key, value) ==
    [deleted |-> deleted \ {key}, result |-> ToolResult(TRUE, None, None)]

adapter_retrieve_data(deleted, key) ==
    IF key \in deleted THEN ToolResult(FALSE, None, "Key not found")
    ELSE IF key = "test_key" THEN ToolResult(TRUE, "test_value", None)
    ELSE ToolResult(FALSE, None, "Key not found")

adapter_delete_data(deleted, key) ==
    [deleted |-> deleted \cup {key}, result |-> ToolResult(TRUE, None, None)]

adapter_list_keys == ToolResult(TRUE, {"test_key"}, None)

\* The two interfaces a caller can stay within: DatabaseTool.execute over
\* _mock_db, and the adapter's tool.function(...) wrappers.
DbInterfaces == {"execute", "function"}

NoDbCall == [via |-> None, operation |-> None, key |-> None,
             result |-> ToolResult(FALSE, None, None)]

\* history bookkeeping: what the operations made through one interface stored
Recorded(stored, via, operation, key, value) ==
    CASE operation = "store" /\ key # None /\ value # None ->
            [stored EXCEPT ![via] = DictSet(@, key, value)]
      [] operation = "delete" /\ key # None ->
            [stored EXCEPT ![via] = DictDel(@, key)]
      [] operation = "clear" -> [stored EXCEPT ![via] = EmptyDict]
      [] OTHER -> stored

\* database_tool.execute(operation=..., key=..., value=...)
DbExecute(operation, key, value) ==
    LET r == DatabaseTool_execute(_mock_db, operation, key, value)
    IN /\ _mock_db' = r.db
       /\ db_call' = [via |-> "execute", operation |-> operation, key |-> key,
                      result |-> r.result]
       /\ db_stored' = Recorded(db_stored, "execute", operation, key, value)
       /\ UNCHANGED _deleted_keys
       /\ UNCHANGED notDbVars

\* store_data.function(key=..., value=...) and the other adapted tools
DbFunction(operation, key, value) ==
    /\ operation # "unknown"
    /\ key # None
    /\ value # None
    /\ LET r == CASE operation = "store" -> adapter_store_data(_deleted_keys, key, value)
                  [] operation = "delete" -> adapter_delete_data(_deleted_keys, key)
                  [] operation = "clear" -> adapter_clear_database(_deleted_keys)
                  [] operation = "retrieve" ->
                        [deleted |-> _deleted_keys,
                         result |-> adapter_retrieve_data(_deleted_keys, key)]
                  [] OTHER -> [deleted |-> _deleted_keys, result |-> adapter_list_keys]
       IN /\ _deleted_keys' = r.deleted
          /\ db_call' = [via |-> "function", operation |-> operation, key |-> key,
                         result |-> r.result]
    /\ db_stored' = Recorded(db_stored, "function", operation, key, value)
    /\ UNCHANGED _mock_db
    /\ UNCHANGED notDbVars

NextDb ==
    \/ \E op \in DbOperations, k \in DbKeys \cup {None}, v \in DbValues \cup {None} :
          DbExecute(op, k, v)
    \/ \E op \in DbOperations, k \in DbKeys, v \in DbValues : DbFunction(op, k, v)

----------------------------------------------------------------------------
(* LLM provider adapters: process_prompt(prompt_data) -> response dict     *)

Providers == {"openai", "openai_module5", "gemini", "requestry", "openrouter"}

\* GeminiAgent.__init__
Gemini_default_model == "gemini-1.0-pro"
Gemini_supported_models == {"gemini-1.0-pro", "gemini-1.0-pro-vision",
                            "gemini-1.5-pro", "gemini-1.5-flash"}

\* llm_router.GeminiRequest.model: os.getenv("GEMINI_MODEL", ...) unset
GeminiRequest_model == "gemini-2.0-pro-exp-02-05"

\* prompt_data: a dict in which each optional field is absent, None or set.
\* For "headers" the set values are the empty dict and a non-empty dict; for
\* "model" a name no provider knows, one Gemini supports and the Gemini
\* endpoint's default.
OptionalFields == {"model", "system_message", "headers"}

ModelNames == {"given", "gemini-1.5-pro", GeminiRequest_model}

FieldValues(field) ==
    CASE field = "headers" -> {None, "{}", "{X-Title: t}"}
      [] field = "model" -> {None} \cup ModelNames
      [] OTHER -> {None, "given"}

PromptDicts ==
    UNION { {d \in [S -> {None, "given", "{}", "{X-Title: t}"} \cup ModelNames] :
                \A f \in S : d[f] \in FieldValues(f)} : S \in SUBSET OptionalFields }

\* What the provider's client does when called
ApiBehaviours == {"completes", "APIError", "Exception"}

Returned(result) == [raised |-> FALSE, result |-> result]
Raised == [raised |-> TRUE, result |-> EmptyDict]

ErrorDict(message, model) ==
    [k \in {"status", "message", "model"} |->
        CASE k = "status" -> "error" [] k = "message" -> message [] OTHER -> model]

SuccessDict(message, model) ==
    [k \in {"status", "message", "model", "usage"} |->
        CASE k = "status" -> "success" [] k = "message" -> message
          [] k = "model" -> model [] OTHER -> "usage"]

\* module4 OpenAIAgent.process_prompt
OpenAIAgent_process_prompt(prompt_data, has_key, api) ==
    IF ~has_key THEN Returned(ErrorDict("OPENAI_API_KEY missing in environment.", "unknown"))
    ELSE LET model_name == DictGet(prompt_data, "model", "gpt-4o-mini")
         IN IF api = "completes"
              THEN Returned(SuccessDict("completion", model_name))
              ELSE Returned(ErrorDict("API error", model_name))

\* module5 OpenAIAgent.process_prompt: the text is returned under "response"
\* and the error under "error"
OpenAIAgent5_process_prompt(prompt_data, api) ==
    LET model_name == DictGet(prompt_data, "model", "gpt-4o-mini")
    IN IF api = "completes"
         THEN Returned([k \in {"status", "response", "model", "usage"} |->
                  CASE k = "status" -> "success" [] k = "response" -> "completion"
                    [] k = "model" -> model_name [] OTHER -> "usage"])
         ELSE Returned([k \in {"status", "error", "model"} |->
                  CASE k = "status" -> "error" [] k = "error" -> "API error"
                    [] OTHER -> model_name])

\* GeminiAgent.process_prompt: the whole body is inside try/except Exception.
\* An unsupported model (None included) falls back to the default model;
\* len(system_message) raises TypeError for None, inside the try.
GeminiAgent_process_prompt(prompt_data, api) ==
    LET requested == DictGet(prompt_data, "model", Gemini_default_model)
        model_name == IF requested \in Gemini_supported_models
                        THEN requested ELSE Gemini_default_model
        system_message == DictGet(prompt_data, "system_message", "You are a helpful assistant.")
    IN IF api # "completes"
         THEN Returned(ErrorDict("Error processing prompt", model_name))
         ELSE IF system_message = None
                THEN Returned(ErrorDict("Error processing prompt", model_name))
                ELSE Returned(SuccessDict("completion", model_name))

\* RequestryAgent.process_prompt
RequestryAgent_process_prompt(prompt_data, api) ==
    LET model_name == DictGet(prompt_data, "model", "cline/o3-mini")
    IN CASE api = "completes" -> Returned(SuccessDict("completion", model_name))
         [] api = "APIError" -> Returned(ErrorDict("Requestry API error", model_name))
         [] OTHER -> Returned(ErrorDict("Unexpected error", model_name))

\* OpenRouterAgent.process_prompt: the header merge
\*     headers = {**self.optional_headers, **custom_headers}
\* is outside the try block and raises TypeError when custom_headers is None
OpenRouterAgent_process_prompt(prompt_data, api) ==
    LET model_name == DictGet(prompt_data, "model", "openai/gpt-4o")
        custom_headers == DictGet(prompt_data, "headers", "{}")
    IN IF custom_headers = None THEN Raised
       ELSE CASE api = "completes" -> Returned(SuccessDict("completion", model_name))
              [] api = "APIError" -> Returned(ErrorDict("OpenRouter API error", model_name))
              [] OTHER -> Returned(ErrorDict("Unexpected error", model_name))

process_prompt(provider, prompt_data, has_key, api) ==
    CASE provider = "openai" -> OpenAIAgent_process_prompt(prompt_data, has_key, api)
      [] provider = "openai_module5" -> OpenAIAgent5_process_prompt(prompt_data, api)
      [] provider = "gemini" -> GeminiAgent_process_prompt(prompt_data, api)
      [] provider = "requestry" -> RequestryAgent_process_prompt(prompt_data, api)
      [] OTHER -> OpenRouterAgent_process_prompt(prompt_data, api)

NoProvCall == [provider |-> None, prompt_data |-> EmptyDict, outcome |-> Returned(EmptyDict)]

\* agent = Provider(); agent.process_prompt(prompt_data).  The constructors of
\* every adapter but the module4 OpenAIAgent raise when the key is missing,
\* so process_prompt is only reached with a key there.
ProcessPrompt(provider, prompt_data, has_key, api) ==
    /\ provider # "openai" => has_key
    /\ prov_call' = [provider |-> provider, prompt_data |-> prompt_data,
                     outcome |-> process_prompt(provider, prompt_data, has_key, api)]
    /\ UNCHANGED notProvVars

NextProv ==
    \E p \in Providers, d \in PromptDicts, h \in BOOLEAN, a \in ApiBehaviours :
        ProcessPrompt(p, d, h, a)

----------------------------------------------------------------------------
(* Strings whose characters matter are sequences of one-character strings  *)

UpperCase == <<"A", "B", "C", "D", "E", "F", "G", "H", "I", "J", "K", "L", "M", "N", "O", "P", "Q", "R", "S", "T", "U", "V", "W", "X", "Y", "Z">>
LowerCase == <<"a", "b", "c", "d", "e", "f", "g", "h", "i", "j", "k", "l", "m", "n", "o", "p", "q", "r", "s", "t", "u", "v", "w", "x", "y", "z">>

\* str.lower() of one character
LowerChar(c) ==
    IF \E i \in DOMAIN UpperCase : UpperCase[i] = c
      THEN LowerCase[CHOOSE i \in DOMAIN UpperCase : UpperCase[i] = c]
      ELSE c

\* str.lower()
lower(s) == [i \in 1..Len(s) |-> LowerChar(s[i])]

\* word in text
contains(text, word) ==
    \E i \in 0..(Len(text) - Len(word)) : SubSeq(text, i + 1, i + Len(word)) = word

----------------------------------------------------------------------------
(* RecommenderAgent: provider and model recommendation                     *)

S_reasoning == <<"r", "e", "a", "s", "o", "n", "i", "n", "g">>
S_conversation == <<"c", "o", "n", "v", "e", "r", "s", "a", "t", "i", "o", "n">>
S_creative == <<"c", "r", "e", "a", "t", "i", "v", "e">>
S_code == <<"c", "o", "d", "e">>
S_default == <<"d", "e", "f", "a", "u", "l", "t">>

TaskRows == {S_reasoning, S_conversation, S_creative, S_code, S_default}

ModelRow(reasoning, conversation, creative, code, default) ==
    [t \in TaskRows |->
        CASE t = S_reasoning -> reasoning
          [] t = S_conversation -> conversation
          [] t = S_creative -> creative
          [] t = S_code -> code
          [] OTHER -> default]

\* The table with the model the class docstring shows for a reasoning task
provider_models_as_documented ==
    [p \in {"openai", "gemini", "requestry", "openrouter"} |->
        CASE p = "openai" ->
               ModelRow("gpt-4o-mini", "gpt-4o-mini", "gpt-4o", "gpt-4o", "gpt-4o-mini")
          [] p = "gemini" ->
               ModelRow("gemini-2.0-pro-exp-02-05", "gemini-1.5-pro",
                        "gemini-2.0-pro-exp-02-05", "gemini-1.5-pro", "gemini-1.5-pro")
          [] p = "requestry" ->
               ModelRow("cline/4o-mini", "cline/o3-mini", "cline/4o-mini",
                        "cline/4o-mini", "cline/o3-mini")
          [] OTHER ->
               ModelRow("openai/gpt-4o", "openai/gpt-4o-mini", "openai/gpt-4o",
                        "openai/gpt-4o", "openai/gpt-4o-mini")]

provider_models ==
    [p \in {"openai", "gemini", "requestry", "openrouter"} |->
        CASE p = "openai" ->
               ModelRow("gpt-4o", "gpt-4o-mini", "gpt-4o", "gpt-4o", "gpt-4o-mini")
          [] p = "gemini" ->
               ModelRow("gemini-2.0-pro-exp-02-05", "gemini-1.5-pro",
                        "gemini-2.0-pro-exp-02-05", "gemini-1.5-pro", "gemini-1.5-pro")
          [] p = "requestry" ->
               ModelRow("cline/4o-mini", "cline/o3-mini", "cline/4o-mini",
                        "cline/4o-mini", "cline/o3-mini")
          [] OTHER ->
               ModelRow("openai/gpt-4o", "openai/gpt-4o-mini", "openai/gpt-4o",
                        "openai/gpt-4o", "openai/gpt-4o-mini")]

LengthRow(short, medium, long) ==
    [c \in {"short", "medium", "long"} |->
        CASE c = "short" -> short [] c = "medium" -> medium [] OTHER -> long]

task_provider_mapping ==
    [t \in TaskRows |->
        CASE t = S_reasoning -> LengthRow("openai", "openai", "openrouter")
          [] t = S_conversation -> LengthRow("openai", "gemini", "gemini")
          [] t = S_creative -> LengthRow("openai", "openai", "gemini")
          [] t = S_code -> LengthRow("openai", "openai", "openrouter")
          [] OTHER -> LengthRow("openai", "openai", "openai")]

_get_length_category(prompt_length) ==
    LET estimated_tokens == prompt_length \div 4
    IN IF estimated_tokens < 500 THEN "short"
       ELSE IF estimated_tokens < 2000 THEN "medium"
       ELSE "long"

\* The task_type of a request: a string, or None (str |-> FALSE)
StrValue(chars) == [str |-> TRUE, chars |-> chars]
NoneValue == [str |-> FALSE, chars |-> <<>>]

TaskTypeInputs ==
    {<<"r", "e", "a", "s", "o", "n", "i", "n", "g">>,
     <<"R", "e", "a", "s", "o", "n", "i", "n", "g">>,
     <<"R", "E", "A", "S", "O", "N", "I", "N", "G">>,
     <<"c", "o", "n", "v", "e", "r", "s", "a", "t", "i", "o", "n">>,
     <<"C", "o", "n", "v", "e", "r", "s", "a", "t", "i", "o", "n">>,
     <<"c", "r", "e", "a", "t", "i", "v", "e">>,
     <<"C", "R", "E", "A", "T", "I", "V", "E">>,
     <<"c", "o", "d", "e">>,
     <<"C", "o", "d", "e">>,
     <<"C", "O", "D", "E">>,
     <<"d", "e", "f", "a", "u", "l", "t">>,
     <<"D", "e", "f", "a", "u", "l", "t">>,
     <<"c", "o", "d", "e", "s">>,
     <<"c", "h", "a", "t">>,
     <<>>}

PromptLengths == {0, 100, 200, 1999, 2000, 2001, 7999, 8000, 8001, 20000}

RecommenderFallback ==
    [status |-> "error", recommended_provider |-> "openai", model |-> "gpt-3.5-turbo",
     message |-> <<>>]

\* The model is looked up in the 'openai' mapping whatever provider was chosen
RecommenderAgent_process_prompt_openai_models(prompt_data) ==
    IF ~prompt_data.task_type.str
      THEN RecommenderFallback
      ELSE LET task_type == lower(prompt_data.task_type.chars)
               length_category == _get_length_category(prompt_data.prompt_length)
               task_mapping == DictGet(task_provider_mapping, task_type,
                                       task_provider_mapping[S_default])
               recommended_provider == DictGet(task_mapping, length_category,
                                               task_mapping["short"])
               provider_model_mapping == provider_models["openai"]
               model == DictGet(provider_model_mapping, task_type,
                                provider_model_mapping[S_default])
           IN [status |-> "success", recommended_provider |-> recommended_provider,
               model |-> model,
               message |-> <<task_type, prompt_data.prompt_length, length_category>>]

\* RecommenderAgent.process_prompt; None.lower() raises AttributeError inside
\* the try, which the except turns into the fallback answer
RecommenderAgent_process_prompt(prompt_data) ==
    IF ~prompt_data.task_type.str
      THEN RecommenderFallback
      ELSE LET task_type == lower(prompt_data.task_type.chars)
               length_category == _get_length_category(prompt_data.prompt_length)
               task_mapping == DictGet(task_provider_mapping, task_type,
                                       task_provider_mapping[S_default])
               recommended_provider == DictGet(task_mapping, length_category,
                                               task_mapping["short"])
               provider_model_mapping == DictGet(provider_models, recommended_provider,
                                                 provider_models["openai"])
               model == DictGet(provider_model_mapping, task_type,
                                provider_model_mapping[S_default])
           IN [status |-> "success", recommended_provider |-> recommended_provider,
               model |-> model,
               message |-> <<task_type, prompt_data.prompt_length, length_category>>]

NoRecCall ==
    [called |-> FALSE, prompt_data |-> [task_type |-> NoneValue, prompt_length |-> 0],
     result |-> RecommenderFallback]

Recommend(task_type, prompt_length) ==
    /\ LET prompt_data == [task_type |-> task_type, prompt_length |-> prompt_length]
       IN rec_call' = [called |-> TRUE, prompt_data |-> prompt_data,
                       result |-> RecommenderAgent_process_prompt(prompt_data)]
    /\ UNCHANGED notRecVars

NextRec ==
    \E t \in {StrValue(c) : c \in TaskTypeInputs} \cup {NoneValue}, n \in PromptLengths :
        Recommend(t, n)

----------------------------------------------------------------------------
(* HandoffAgent: triage by keyword and the handoff message filters.        *)
(* get_current_trace() is taken to return a trace that offers create_span, *)
(* as the mock the repository's tests install does.                        *)

billing_keywords ==
    <<<<"b", "i", "l", "l">>,
      <<"p", "a", "y", "m", "e", "n", "t">>,
      <<"i", "n", "v", "o", "i", "c", "e">>,
      <<"c", "h", "a", "r", "g", "e">>,
      <<"s", "u", "b", "s", "c", "r", "i", "p", "t", "i", "o", "n">>,
      <<"r", "e", "f", "u", "n", "d">>,
      <<"p", "r", "i", "c", "e">>>>

technical_keywords ==
    <<<<"e", "r", "r", "o", "r">>,
      <<"b", "u", "g">>,
      <<"c", "r", "a", "s", "h">>,
      <<"n", "o", "t", " ", "w", "o", "r", "k", "i", "n", "g">>,
      <<"b", "r", "o", "k", "e", "n">>,
      <<"f", "i", "x">>,
      <<"p", "r", "o", "b", "l", "e", "m">>,
      <<"t", "e", "c", "h", "n", "i", "c", "a", "l">>>>

\* any(word in message_lower for word in words)
any_word_in(message_lower, words) ==
    \E i \in DOMAIN words : contains(message_lower, words[i])

\* The technical keywords are tested before the billing keywords
determine_agent_type_technical_first(message) ==
    LET message_lower == lower(message)
    IN IF any_word_in(message_lower, technical_keywords) THEN "technical"
       ELSE IF any_word_in(message_lower, billing_keywords) THEN "billing"
       ELSE "customer_service"

determine_agent_type(message) ==
    LET message_lower == lower(message)
    IN IF any_word_in(message_lower, billing_keywords) THEN "billing"
       ELSE IF any_word_in(message_lower, technical_keywords) THEN "technical"
       ELSE "customer_service"

MaxChunks == 2

MessageChunks ==
    {<<"B", "i", "l", "l">>,
     <<"p", "a", "y">>,
     <<"m", "e", "n", "t">>,
     <<"E", "R", "R", "O", "R">>,
     <<"n", "o", "t">>,
     <<" ", "w", "o", "r", "k", "i", "n", "g">>,
     <<"h", "e", "l", "l", "o", " ">>,
     <<"f", "i", "x">>,
     <<"R", "e", "f", "u", "n", "d">>,
     <<"m", "y", " ">>}

RECURSIVE Concat(_)
Concat(chunks) ==
    IF chunks = <<>> THEN <<>> ELSE Head(chunks) \o Concat(Tail(chunks))

TriageMessages ==
    {Concat(cs) : cs \in UNION {[1..n -> MessageChunks] : n \in 0..MaxChunks}}

NoTriageCall == [called |-> FALSE, message |-> <<>>, agent_type |-> None]

DetermineAgentType(message) ==
    /\ triage_call' = [called |-> TRUE, message |-> message,
                       agent_type |-> determine_agent_type(message)]
    /\ UNCHANGED notTriageVars

NextTriage == \E m \in TriageMessages : DetermineAgentType(m)

\* A message dict; role None stands for a dict without the "role" key
Message(role, content) == [role |-> role, content |-> content]

billing_context ==
    "You are handling a billing-related inquiry. Focus only on billing, payments, invoices, and subscriptions."
technical_context ==
    "You are handling a technical support inquiry. Focus only on technical issues, troubleshooting, and system problems."
customer_service_context ==
    "You are handling a general customer service inquiry. Focus on providing helpful, friendly assistance."

\* for message in messages: if message.get("role") == "user": append; break
RECURSIVE ScanForward(_, _)
ScanForward(messages, i) ==
    IF i > Len(messages) THEN <<>>
    ELSE IF messages[i].role = "user" THEN <<messages[i]>>
    ELSE ScanForward(messages, i + 1)

\* for message in reversed(messages): if message.get("role") == "user": append; break
RECURSIVE ScanReversed(_, _)
ScanReversed(messages, i) ==
    IF i = 0 THEN <<>>
    ELSE IF messages[i].role = "user" THEN <<messages[i]>>
    ELSE ScanReversed(messages, i - 1)

\* The list is walked from the front: the oldest user message is taken
oldest_user_message(messages) == ScanForward(messages, 1)

most_recent_user_message(messages) == ScanReversed(messages, Len(messages))

filter_billing_messages(messages) ==
    <<Message("system", billing_context)>> \o most_recent_user_message(messages)

filter_technical_messages(messages) ==
    <<Message("system", technical_context)>> \o most_recent_user_message(messages)

filter_customer_service_messages(messages) ==
    <<Message("system", customer_service_context)>> \o most_recent_user_message(messages)

MaxMessages == 3

Roles == {"system", "user", "assistant", None}
Contents == {"q1", "q2"}
InputMessages ==
    {Message("user", c) : c \in Contents} \cup {Message(r, "q1") : r \in Roles \ {"user"}}
MessageLists == UNION {[1..n -> InputMessages] : n \in 0..MaxMessages}

Filters == {"billing", "technical", "customer_service"}

apply_filter(name, messages) ==
    CASE name = "billing" -> filter_billing_messages(messages)
      [] name = "technical" -> filter_technical_messages(messages)
      [] OTHER -> filter_customer_service_messages(messages)

NoFilterCall == [filter |-> None, messages |-> <<>>, filtered |-> <<>>]

FilterMessages(name, messages) ==
    /\ filter_call' = [filter |-> name, messages |-> messages,
                       filtered |-> apply_filter(name, messages)]
    /\ UNCHANGED notFilterVars

NextFilter == \E f \in Filters, ms \in MessageLists : FilterMessages(f, ms)

----------------------------------------------------------------------------
(* Length guardrails.  A text enters only through its length, so a string  *)
(* is modelled by its number of characters.  As for the handoff code,      *)
(* get_current_trace() is taken to return a trace that offers create_span. *)

input_max_length == 1000
output_max_length == 5000

GuardrailFunctionOutput(output_info, tripwire_triggered) ==
    [output_info |-> output_info, tripwire_triggered |-> tripwire_triggered]

\* output_info: None, or the f-string with its two interpolated numbers
NoInfo == [text |-> None, length |-> 0, max_length |-> 0]
TooLong(text, length, max_length) ==
    [text |-> text, length |-> length, max_length |-> max_length]

\* The limit itself is rejected
validate_input_length_inclusive(user_input) ==
    IF user_input >= input_max_length
      THEN GuardrailFunctionOutput(
               TooLong("Input is too long", user_input, input_max_length), TRUE)
      ELSE GuardrailFunctionOutput(NoInfo, FALSE)

validate_input_length(user_input) ==
    IF user_input > input_max_length
      THEN GuardrailFunctionOutput(
               TooLong("Input is too long", user_input, input_max_length), TRUE)
      ELSE GuardrailFunctionOutput(NoInfo, FALSE)

\* Agent outputs: a str of a given length, an int, or None
StrOutput(n) == [kind |-> "str", n |-> n]
IntOutput(n) == [kind |-> "int", n |-> n]
NoneOutput == [kind |-> "NoneType", n |-> 0]

\* len(str(n)) for an int n
RECURSIVE DecimalLength(_)
DecimalLength(n) ==
    IF n < 0 THEN 1 + DecimalLength(-n)
    ELSE IF n < 10 THEN 1 ELSE 1 + DecimalLength(n \div 10)

\* len(output_str), where output_str is agent_output itself for a str and
\* str(agent_output) otherwise
output_str_length(agent_output) ==
    CASE agent_output.kind = "str" -> agent_output.n
      [] agent_output.kind = "int" -> DecimalLength(agent_output.n)
      [] OTHER -> 4

validate_output_length(agent_output) ==
    LET length == output_str_length(agent_output)
    IN IF length > output_max_length
         THEN GuardrailFunctionOutput(
                  TooLong("Agent output is too long", length, output_max_length), TRUE)
         ELSE GuardrailFunctionOutput(NoInfo, FALSE)

TextLengths == (0..3) \cup (980..1020) \cup (4980..5020)

AgentOutputs ==
    {StrOutput(n) : n \in TextLengths} \cup {IntOutput(n) : n \in {-12, 0, 5001}}
        \cup {NoneOutput}

NoGuardCall ==
    [guardrail |-> None, input |-> StrOutput(0),
     output |-> GuardrailFunctionOutput(NoInfo, FALSE)]

ValidateInputLength(user_input) ==
    /\ guard_call' = [guardrail |-> "validate_input_length",
                      input |-> StrOutput(user_input),
                      output |-> validate_input_length(user_input)]
    /\ UNCHANGED notGuardVars

ValidateOutputLength(agent_output) ==
    /\ guard_call' = [guardrail |-> "validate_output_length",
                      input |-> agent_output,
                      output |-> validate_output_length(agent_output)]
    /\ UNCHANGED notGuardVars

NextGuard ==
    \/ \E n \in TextLengths : ValidateInputLength(n)
    \/ \E o \in AgentOutputs : ValidateOutputLength(o)

----------------------------------------------------------------------------
(* Mock cache: _Cache behind cache_get / cache_set, and the .function      *)
(* attribute that tool_adapter.py attaches to the two tools                *)

MaxTime == 2

CacheKeys == {"test_cache_key", "k2"}
CacheValues == {"test_cache_value", "v2"}
Ttls == {0, 1}

\* _Cache.set
Cache_set(cache, key, value, ttl) ==
    DictSet(cache, key, [value |-> value, expires |-> now + ttl])

\* _Cache.get: the cache afterwards and the value returned
Cache_get(cache, key) ==
    IF key \notin DOMAIN cache THEN [cache |-> cache, value |-> None]
    ELSE IF cache[key].expires < now
           THEN [cache |-> DictDel(cache, key), value |-> None]
           ELSE [cache |-> cache, value |-> cache[key].value]

\* wrapper() of tool_adapter.py for tool.name == 'cache_get': the value of
\* the returned dict, None standing for {"success": False, ...}
adapter_cache_get(key) ==
    IF key = "test_cache_key" THEN "test_cache_value" ELSE None

NoCacheCall == [at |-> 0, via |-> None, operation |-> None, key |-> None, value |-> None]

CacheSetRecorded(key, value, ttl) ==
    DictSet(cache_sets, key, [value |-> value, at |-> now, ttl |-> ttl])

\* time passes between two calls
Tick ==
    /\ now < MaxTime
    /\ now' = now + 1
    /\ UNCHANGED <<_cache, cache_sets, cache_call>>
    /\ UNCHANGED notCacheVars

\* cache_set(key, value, ttl)
CacheSet(key, value, ttl) ==
    /\ _cache' = Cache_set(_cache, key, value, ttl)
    /\ cache_sets' = CacheSetRecorded(key, value, ttl)
    /\ cache_call' = [at |-> now, via |-> "tool", operation |-> "set", key |-> key, value |-> "True"]
    /\ UNCHANGED now
    /\ UNCHANGED notCacheVars

\* cache_get(key)
CacheGet(key) ==
    /\ _cache' = Cache_get(_cache, key).cache
    /\ cache_call' = [at |-> now, via |-> "tool", operation |-> "get", key |-> key,
                      value |-> Cache_get(_cache, key).value]
    /\ UNCHANGED <<now, cache_sets>>
    /\ UNCHANGED notCacheVars

\* cache_set.function(key=..., value=..., ttl=...): nothing is stored
CacheSetFunction(key, value, ttl) ==
    /\ cache_sets' = CacheSetRecorded(key, value, ttl)
    /\ cache_call' = [at |-> now, via |-> "function", operation |-> "set", key |-> key,
                      value |-> "True"]
    /\ UNCHANGED <<now, _cache>>
    /\ UNCHANGED notCacheVars

\* cache_get.function(key=...)
CacheGetFunction(key) ==
    /\ cache_call' = [at |-> now, via |-> "function", operation |-> "get", key |-> key,
                      value |-> adapter_cache_get(key)]
    /\ UNCHANGED <<now, _cache, cache_sets>>
    /\ UNCHANGED notCacheVars

NextCache ==
    \/ Tick
    \/ \E k \in CacheKeys, v \in CacheValues, t \in Ttls : CacheSet(k, v, t)
    \/ \E k \in CacheKeys : CacheGet(k)
    \/ \E k \in CacheKeys, v \in CacheValues, t \in Ttls : CacheSetFunction(k, v, t)
    \/ \E k \in CacheKeys : CacheGetFunction(k)

----------------------------------------------------------------------------
(* Mock rate limiter: _RateLimiter behind check_rate_limit / make_request, *)
(* and the .function attribute tool_adapter.py attaches to check_rate_limit *)

_window_size == 60
_max_requests == 10

MaxRateTicks == 3
MaxRequests == 3

Urls == {"https://api.example.com/data", "https://api.example.com/error",
         "https://example.org/x"}
RateKeys == Urls \cup {"test_rate_limit"}

\* [t for t in self._request_counts[key] if now - t < self._window_size]
InWindow(timestamps) == SelectSeq(timestamps, LAMBDA t : rl_now - t < _window_size)

check_limit_inclusive(counts, key) ==
    LET initialised == IF key \in DOMAIN counts THEN counts ELSE DictSet(counts, key, <<>>)
        pruned == DictSet(initialised, key, InWindow(initialised[key]))
    IN [counts |-> pruned, allowed |-> Len(pruned[key]) <= _max_requests]

\* _RateLimiter.check_limit: the counts afterwards and the verdict
check_limit(counts, key) ==
    LET initialised == IF key \in DOMAIN counts THEN counts ELSE DictSet(counts, key, <<>>)
        pruned == DictSet(initialised, key, InWindow(initialised[key]))
    IN [counts |-> pruned, allowed |-> Len(pruned[key]) < _max_requests]

\* _RateLimiter.update_count
update_count(counts, key) ==
    LET initialised == IF key \in DOMAIN counts THEN counts ELSE DictSet(counts, key, <<>>)
    IN DictSet(initialised, key, Append(initialised[key], rl_now))

make_request_counting_rejected(counts, url) ==
    LET checked == check_limit(counts, url)
    IN IF ~checked.allowed
         THEN [counts |-> update_count(checked.counts, url), status_code |-> 429]
         ELSE [counts |-> update_count(checked.counts, url),
               status_code |->
                   CASE url = "https://api.example.com/data" -> 200
                     [] url = "https://api.example.com/error" -> 500
                     [] OTHER -> 404]

\* make_request: the counts afterwards and the status code of the Response
make_request(counts, url) ==
    LET checked == check_limit(counts, url)
    IN IF ~checked.allowed
         THEN [counts |-> checked.counts, status_code |-> 429]
         ELSE [counts |-> update_count(checked.counts, url),
               status_code |->
                   CASE url = "https://api.example.com/data" -> 200
                     [] url = "https://api.example.com/error" -> 500
                     [] OTHER -> 404]

\* wrapper() of tool_adapter.py for tool.name == 'check_rate_limit'
adapter_check_rate_limit(key, max_requests, window_seconds) ==
    [allowed |-> TRUE, remaining |-> 4, reset_after |-> window_seconds]

Recorded_count(counts, key) == IF key \in DOMAIN counts THEN Len(counts[key]) ELSE 0

TotalRecorded ==
    LET RECURSIVE Sum(_)
        Sum(S) == IF S = {} THEN 0
                  ELSE LET k == CHOOSE x \in S : TRUE
                       IN Len(_request_counts[k]) + Sum(S \ {k})
    IN Sum(DOMAIN _request_counts)

NoRateCall ==
    [operation |-> None, via |-> None, key |-> None, fresh |-> FALSE,
     max_requests |-> 0, allowed |-> FALSE, reports_remaining |-> FALSE,
     remaining |-> 0, consumed |-> 0, status_code |-> 0]

\* time passes between two calls
RateTick ==
    /\ rl_now < 30 * MaxRateTicks
    /\ rl_now' = rl_now + 30
    /\ UNCHANGED <<_request_counts, rl_seen, rl_call, rl_rejected>>
    /\ UNCHANGED notRateVars

\* check_rate_limit(key): a bool is all that is returned
CheckRateLimit(key) ==
    LET checked == check_limit(_request_counts, key)
    IN /\ _request_counts' = checked.counts
       /\ rl_seen' = rl_seen \cup {key}
       /\ rl_call' = [operation |-> "check", via |-> "tool", key |-> key,
                      fresh |-> key \notin rl_seen, max_requests |-> _max_requests,
                      allowed |-> checked.allowed, reports_remaining |-> FALSE,
                      remaining |-> 0,
                      consumed |-> Recorded_count(checked.counts, key)
                                     - Len(InWindow(IF key \in DOMAIN _request_counts
                                                      THEN _request_counts[key] ELSE <<>>)),
                      status_code |-> 0]
       /\ UNCHANGED <<rl_now, rl_rejected>>
       /\ UNCHANGED notRateVars

\* make_request(url, ...)
MakeRequestCall(url) ==
    LET made == make_request(_request_counts, url)
    IN /\ _request_counts' = made.counts
       /\ rl_seen' = rl_seen \cup {url}
       /\ rl_call' = [NoRateCall EXCEPT !.operation = "request", !.via = "tool",
                          !.key = url, !.fresh = url \notin rl_seen,
                          !.max_requests = _max_requests,
                          !.allowed = made.status_code # 429,
                          !.status_code = made.status_code]
       /\ UNCHANGED rl_now
       /\ UNCHANGED notRateVars

MakeRequest(url) ==
    /\ TotalRecorded < MaxRequests
    /\ MakeRequestCall(url)
    /\ UNCHANGED rl_rejected

\* Requests made one after the other for one URL until the limit is reached
\* and beyond, with a few requests for another URL in between: at most
\* MaxRejected rejected requests and MaxOtherRequests recorded requests for
\* the other URL are followed.
MaxRejected == 2
MaxOtherRequests == 2
HotUrl == "https://api.example.com/data"
BurstUrls == {HotUrl, "https://example.org/x"}

\* the timestamps recorded for a key that lie in the window ending now
ServedInWindow(counts, key) == Len(InWindow(DictGet(counts, key, <<>>)))

MakeRequestBurst(url) ==
    /\ rl_rejected[url] < MaxRejected \/ check_limit(_request_counts, url).allowed
    /\ url = HotUrl \/ Recorded_count(_request_counts, url) < MaxOtherRequests
    /\ MakeRequestCall(url)
    /\ rl_rejected' = IF check_limit(_request_counts, url).allowed THEN rl_rejected
                      ELSE [rl_rejected EXCEPT ![url] = @ + 1]

NextBurst ==
    \/ RateTick
    \/ \E u \in BurstUrls : MakeRequestBurst(u)

\* check_rate_limit.function(key=..., max_requests=..., window_seconds=...)
CheckRateLimitFunction(key, max_requests, window_seconds) ==
    LET result == adapter_check_rate_limit(key, max_requests, window_seconds)
    IN /\ rl_seen' = rl_seen \cup {key}
       /\ rl_call' = [operation |-> "check", via |-> "function", key |-> key,
                      fresh |-> key \notin rl_seen, max_requests |-> max_requests,
                      allowed |-> result.allowed, reports_remaining |-> TRUE,
                      remaining |-> result.remaining, consumed |-> 0,
                      status_code |-> 0]
       /\ UNCHANGED <<rl_now, _request_counts, rl_rejected>>
       /\ UNCHANGED notRateVars

NextRate ==
    \/ RateTick
    \/ \E k \in RateKeys : CheckRateLimit(k)
    \/ \E u \in Urls : MakeRequest(u)
    \/ \E k \in RateKeys, m \in {5, 10} : CheckRateLimitFunction(k, m, 60)

----------------------------------------------------------------------------
(* StreamItemsAgent.stream_items: one generator, followed from the first   *)
(* event to the last.  The two model calls are the environment: each       *)
(* returns some answer or raises.                                          *)

max_items == 10

\* count: Optional[int]
GivenCount(n) == [given |-> TRUE, n |-> n]
NoCount == [given |-> FALSE, n |-> 0]
RequestedCounts == {NoCount} \cup {GivenCount(n) : n \in {-1, 0, 1, 2, 3, 10, 11}}

Event(type, n, content) == [type |-> type, n |-> n, content |-> content]

Min(a, b) == IF a < b THEN a ELSE b
Max(a, b) == IF a > b THEN a ELSE b

\* max(1, min(count, self.max_items))
clamp_count(count) == Max(1, Min(count, max_items))

\* The count the model's tool call names, or none: random.randint(1, max_items)
ToolCallCounts == {0, 2, 11}

\* _generate_items: the lines of the answer, numbered, cut to count
generate_items(lines, count) == SubSeq([i \in 1..lines |-> i], 1, Min(lines, count))

\* How many non-empty lines the model may answer with when asked for count
AnswerLines(count) == {0, count, count + 1} \cup (IF count > 1 THEN {count - 1} ELSE {})

\* yield {"type": "status", ...}
StreamBegin(count) ==
    /\ stream_pc = "idle"
    /\ stream_req' = count
    /\ stream_events' = <<Event("status", 0, 0)>>
    /\ stream_pc' = "started"
    /\ UNCHANGED <<stream_count, stream_items_list>>
    /\ UNCHANGED notStreamVars

\* count given: clamp it; yield the count event
StreamClampCount ==
    /\ stream_pc = "started"
    /\ stream_req.given
    /\ stream_count' = clamp_count(stream_req.n)
    /\ stream_events' = Append(stream_events, Event("count", stream_count', 0))
    /\ stream_pc' = "counted"
    /\ UNCHANGED <<stream_req, stream_items_list>>
    /\ UNCHANGED notStreamVars

\* count is None: _determine_item_count returns; yield the count event
StreamDetermineCount(answer) ==
    /\ stream_pc = "started"
    /\ ~stream_req.given
    /\ stream_count' = clamp_count(answer)
    /\ stream_events' = Append(stream_events, Event("count", stream_count', 0))
    /\ stream_pc' = "counted"
    /\ UNCHANGED <<stream_req, stream_items_list>>
    /\ UNCHANGED notStreamVars

\* yield {"type": "status", ...}
StreamSecondStatus ==
    /\ stream_pc = "counted"
    /\ stream_events' = Append(stream_events, Event("status", 0, 0))
    /\ stream_pc' = "generating"
    /\ UNCHANGED <<stream_req, stream_count, stream_items_list>>
    /\ UNCHANGED notStreamVars

\* items = await self._generate_items(category, count)
StreamGenerated(lines) ==
    /\ stream_pc = "generating"
    /\ stream_items_list' = generate_items(lines, stream_count)
    /\ stream_pc' = "streaming"
    /\ UNCHANGED <<stream_req, stream_count, stream_events>>
    /\ UNCHANGED notStreamVars

\* a model call raises: nothing in stream_items or in the endpoint's
\* generate() catches it, the stream ends here
StreamModelCallRaises ==
    /\ \/ stream_pc = "started" /\ ~stream_req.given
       \/ stream_pc = "generating"
    /\ stream_pc' = "aborted"
    /\ UNCHANGED <<stream_req, stream_count, stream_items_list, stream_events>>
    /\ UNCHANGED notStreamVars

ItemsYielded == Len(SelectSeq(stream_events, LAMBDA e : e.type = "item"))

\* yield {"type": "item", "index": i + 1, "content": item}
StreamItem ==
    /\ stream_pc = "streaming"
    /\ ItemsYielded < Len(stream_items_list)
    /\ stream_events' = Append(stream_events,
           Event("item", ItemsYielded + 1, stream_items_list[ItemsYielded + 1]))
    /\ UNCHANGED <<stream_pc, stream_req, stream_count, stream_items_list>>
    /\ UNCHANGED notStreamVars

\* yield {"type": "complete", "message": f"Generated {len(items)} ..."}
StreamComplete ==
    /\ stream_pc = "streaming"
    /\ ItemsYielded = Len(stream_items_list)
    /\ stream_events' = Append(stream_events,
                               Event("complete", Len(stream_items_list), 0))
    /\ stream_pc' = "done"
    /\ UNCHANGED <<stream_req, stream_count, stream_items_list>>
    /\ UNCHANGED notStreamVars

NextStream ==
    \/ \E c \in RequestedCounts : StreamBegin(c)
    \/ StreamClampCount
    \/ \E a \in ToolCallCounts \cup (1..max_items) : StreamDetermineCount(a)
    \/ StreamSecondStatus
    \/ \E l \in AnswerLines(stream_count) : StreamGenerated(l)
    \/ StreamModelCallRaises
    \/ StreamItem
    \/ StreamComplete

----------------------------------------------------------------------------
(* The execute method of the mock tool classes.  All of them have the same *)
(* form: the whole body is one try block that reads kwargs["operation"],   *)
(* dispatches on it, subscripts kwargs for the operation's arguments and   *)
(* calls a module-level function; "except Exception" returns a failed      *)
(* ToolResult.                                                             *)

ToolClasses == {"DatabaseTool", "ApiTool", "CacheTool", "RateLimiterTool",
                "CsvTool", "JsonTool", "TextAnalysisTool", "StatisticsTool",
                "PatternTool", "VisualizationTool"}

\* The operation names each execute dispatches on
Operations(tool) ==
    CASE tool = "DatabaseTool" -> {"store", "retrieve", "list", "delete", "clear"}
      [] tool = "ApiTool" -> {"request"}
      [] tool = "CacheTool" -> {"get", "set"}
      [] tool = "RateLimiterTool" -> {"check"}
      [] tool = "CsvTool" -> {"parse", "generate"}
      [] tool = "JsonTool" -> {"validate", "transform"}
      [] tool = "TextAnalysisTool" -> {"sentiment", "entities", "keywords"}
      [] tool = "StatisticsTool" -> {"basic_stats", "correlation"}
      [] tool = "PatternTool" -> {"find_patterns", "apply_regex"}
      [] OTHER -> {"bar", "line", "pie", "scatter"}

\* The arguments the branch of an operation reads as kwargs["..."]
SubscriptedKwargs(tool, operation) ==
    CASE operation \in {"store", "set"} -> {"key", "value"}
      [] operation \in {"retrieve", "delete", "get", "check"} -> {"key"}
      [] operation \in {"list", "clear"} -> {}
      [] operation = "request" -> {"url"}
      [] operation = "parse" -> {"content"}
      [] operation = "transform" -> {"data", "template"}
      [] operation \in {"sentiment", "entities", "keywords"} -> {"text"}
      [] operation = "correlation" -> {"x", "y"}
      [] operation = "apply_regex" -> {"text", "pattern"}
      [] operation = "scatter" -> {"x_data", "y_data"}
      [] OTHER -> {"data"}

\* The branches whose ToolResult takes success from the function's result
SuccessIsResult(tool, operation) ==
    \/ tool = "DatabaseTool" /\ operation \in {"store", "delete", "clear"}
    \/ tool = "ApiTool"
    \/ tool = "CacheTool" /\ operation = "set"

\* What the module-level function called by the branch does
FunctionBehaviours == {"returns", "returns_falsy", "raises"}

Completed(result) == [raised |-> FALSE, result |-> result]
Propagated == [raised |-> TRUE, result |-> ToolResult(FALSE, None, None)]

\* The body of the try block.  operation = None: kwargs has no "operation".
execute_try_body(tool, operation, given, behaviour) ==
    IF operation = None THEN Propagated                      \* KeyError
    ELSE IF operation \notin Operations(tool)
      THEN Completed(ToolResult(FALSE, None, "Unknown operation"))
    ELSE IF ~(SubscriptedKwargs(tool, operation) \subseteq given)
      THEN Propagated                                        \* KeyError
    ELSE IF behaviour = "raises" THEN Propagated
    ELSE IF SuccessIsResult(tool, operation)
      THEN Completed(ToolResult(behaviour = "returns", "data", None))
    ELSE Completed(ToolResult(TRUE, "data", None))

BaseTool_execute_without_except(tool, operation, given, behaviour) ==
    execute_try_body(tool, operation, given, behaviour)

\* try: ... except Exception as e: return ToolResult(success=False, error=...)
BaseTool_execute(tool, operation, given, behaviour) ==
    LET body == execute_try_body(tool, operation, given, behaviour)
    IN IF body.raised
         THEN Completed(ToolResult(FALSE, None, "Error executing tool"))
         ELSE body

\* The keyword arguments a caller may pass besides "operation"
KwargNames(tool) == UNION {SubscriptedKwargs(tool, o) : o \in Operations(tool)}

NoToolCall == [tool |-> None, operation |-> None, given |-> {},
               behaviour |-> None, outcome |-> Completed(ToolResult(FALSE, None, None))]

ToolExecute(tool, operation, given, behaviour) ==
    /\ tool_call' = [tool |-> tool, operation |-> operation, given |-> given,
                     behaviour |-> behaviour,
                     outcome |-> BaseTool_execute(tool, operation, given, behaviour)]
    /\ UNCHANGED notToolVars

NextTool ==
    \E tool \in ToolClasses :
        \E operation \in Operations(tool) \cup {"unknown", None},
           given \in SUBSET KwargNames(tool),
           behaviour \in FunctionBehaviours :
            ToolExecute(tool, operation, given, behaviour)

----------------------------------------------------------------------------
(* StateMachine on its own: any sequence of transition_to calls, and a     *)
(* caller that reads state_history and mutates the list it was given.      *)

MaxTransitions == 3

state_history_no_copy(history) == [list |-> history, shares |-> TRUE]

\* StateMachine.state_history: return self._state_history.copy()
state_history(history) == [list |-> history, shares |-> FALSE]

NoView == [list |-> <<>>, shares |-> FALSE, held |-> FALSE, mutated |-> FALSE]

\* What a caller can do to a Python list
ListMutations == {"append", "pop", "set_first", "clear"}

MutateList(list, mutation, state) ==
    CASE mutation = "append" -> Append(list, state)
      [] mutation = "pop" -> SubSeq(list, 1, Len(list) - 1)
      [] mutation = "set_first" -> [list EXCEPT ![1] = state]
      [] OTHER -> <<>>

notAgentMachineVars == <<httpVars, traceVars, dbVars, provVars, recVars, triageVars,
                         filterVars, guardVars, cacheVars, rateVars, streamVars,
                         toolVars, gendpointVars, multiVars, formatVars>>

\* state_machine.transition_to(new_state)
SmTransitionTo(new_state) ==
    /\ sm_calls < MaxTransitions
    /\ transition_to(new_state)
    /\ sm_calls' = sm_calls + 1
    /\ UNCHANGED <<_context, run_pc, run_input, run_tools, run_result, sm_view>>
    /\ UNCHANGED notAgentMachineVars

\* history = state_machine.state_history
SmStateHistory ==
    /\ LET returned == state_history(_state_history)
       IN sm_view' = [list |-> returned.list, shares |-> returned.shares,
                      held |-> TRUE, mutated |-> FALSE]
    /\ UNCHANGED <<agentVars, sm_calls>>
    /\ UNCHANGED notAgentMachineVars

\* the caller mutates the list it holds; a list that is the machine's own
\* is the same object as _state_history
SmMutateReturnedList(mutation, state) ==
    /\ sm_view.held
    /\ ~sm_view.mutated
    /\ mutation \in {"pop", "set_first"} => Len(sm_view.list) > 0
    /\ sm_view' = [sm_view EXCEPT !.list = MutateList(@, mutation, state),
                                  !.mutated = TRUE]
    /\ _state_history' = IF sm_view.shares THEN sm_view'.list ELSE _state_history
    /\ UNCHANGED <<_current_state, _context, run_pc, run_input, run_tools,
                   run_result, sm_calls>>
    /\ UNCHANGED notAgentMachineVars

NextMachine ==
    \/ \E s \in AgentState : SmTransitionTo(s)
    \/ SmStateHistory
    \/ \E m \in ListMutations, s \in AgentState : SmMutateReturnedList(m, s)

----------------------------------------------------------------------------
(* The four guardrail endpoints of the orchestration router.  What happens *)
(* inside the handler is the environment: creating the agent returns or    *)
(* raises, agent.run returns, raises a guardrail tripwire or raises        *)
(* something else; on /guardrails/test-output each guardrail is called on  *)
(* its own and passes, trips or raises.                                    *)

input_guardrails == {"validate_empty_input", "validate_input_length",
                     "validate_harmful_content", "validate_inappropriate_language"}
output_guardrails == {"validate_output_not_empty", "validate_output_length",
                      "validate_no_error_in_output", "validate_output_format"}

GuardrailPaths == {"/input-guardrails", "/output-guardrails",
                   "/guardrails/test-input", "/guardrails/test-output"}

\* What agent.run(request.message) does, and which guardrail tripped if one did
RunOutcomes ==
    {[kind |-> k, guardrail |-> None] : k \in {"completes", "raises"}}
    \cup {[kind |-> "tripwire", guardrail |-> g] : g \in input_guardrails \cup output_guardrails}

\* What one guardrail called directly does
GuardrailOutcomes == {"passes", "trips", "raises"}

GuardrailResponse(status, guardrail_triggered) ==
    [returned |-> TRUE, status |-> status, guardrail_triggered |-> guardrail_triggered]

\* the exception leaves the handler: the framework answers 500
Unhandled == [returned |-> FALSE, status |-> "500", guardrail_triggered |-> FALSE]

\* input_guardrails_endpoint / output_guardrails_endpoint: the creation of the
\* agent and the run are inside one try, "except Exception" answers with
\* guardrail_triggered=True
guardrails_endpoint(creation_raises, run) ==
    IF creation_raises \/ run.kind # "completes"
      THEN GuardrailResponse("error", TRUE)
      ELSE GuardrailResponse("success", FALSE)

\* test_input_guardrail_endpoint: the agent is created before the try
test_input_guardrail_endpoint(creation_raises, run) ==
    IF creation_raises THEN Unhandled
    ELSE IF run.kind # "completes" THEN GuardrailResponse("error", TRUE)
    ELSE GuardrailResponse("success", FALSE)

\* test_output_guardrail_endpoint: results[g]["triggered"] is True when the
\* guardrail's result has tripwire_triggered and also when calling it raised
test_output_guardrail_endpoint(outcomes) ==
    LET triggered == \E g \in DOMAIN outcomes : outcomes[g] \in {"trips", "raises"}
    IN GuardrailResponse(IF triggered THEN "error" ELSE "success", triggered)

NoGuardrailRequest ==
    [path |-> None, creation_raises |-> FALSE,
     run |-> [kind |-> None, guardrail |-> None],
     outcomes |-> [g \in output_guardrails |-> "passes"],
     response |-> Unhandled]

\* POST /input-guardrails, /output-guardrails, /guardrails/test-input
GuardrailRequest(path, creation_raises, run) ==
    /\ path # "/guardrails/test-output"
    /\ creation_raises => run.kind = "completes"
    /\ ge_call' = [NoGuardrailRequest EXCEPT
                      !.path = path, !.creation_raises = creation_raises,
                      !.run = IF creation_raises THEN NoGuardrailRequest.run ELSE run,
                      !.response = IF path = "/guardrails/test-input"
                                     THEN test_input_guardrail_endpoint(creation_raises, run)
                                     ELSE guardrails_endpoint(creation_raises, run)]
    /\ UNCHANGED notGendpointVars

\* POST /guardrails/test-output
TestOutputGuardrailRequest(outcomes) ==
    /\ ge_call' = [NoGuardrailRequest EXCEPT
                      !.path = "/guardrails/test-output", !.outcomes = outcomes,
                      !.response = test_output_guardrail_endpoint(outcomes)]
    /\ UNCHANGED notGendpointVars

NextGendpoint ==
    \/ \E p \in GuardrailPaths, c \in BOOLEAN, r \in RunOutcomes : GuardrailRequest(p, c, r)
    \/ \E o \in [output_guardrails -> GuardrailOutcomes] : TestOutputGuardrailRequest(o)

----------------------------------------------------------------------------
(* MultiToolAgent.__init__: the tools of the configuration are filtered    *)
(* into the list handed to the SDK Agent, and _build_instructions names    *)
(* them under "Available tools".                                           *)

MaxConfigTools == 3

\* an instance of the SDK's Tool made by @function_tool
FunctionTool(name) ==
    [isTool |-> TRUE, isBaseTool |-> FALSE, has_description |-> TRUE,
     name |-> name, class_name |-> "FunctionTool"]

\* an instance of the SDK's Tool that has no description attribute
HostedTool(name) ==
    [isTool |-> TRUE, isBaseTool |-> FALSE, has_description |-> FALSE,
     name |-> name, class_name |-> "HostedTool"]

\* an instance of a BaseTool subclass: its name property is the class name
BaseToolInstance(class_name) ==
    [isTool |-> FALSE, isBaseTool |-> TRUE, has_description |-> TRUE,
     name |-> class_name, class_name |-> class_name]

\* anything else a List[Any] may hold, e.g. an undecorated function
PlainObject(name) ==
    [isTool |-> FALSE, isBaseTool |-> FALSE, has_description |-> FALSE,
     name |-> name, class_name |-> "function"]

\* tools=[...] of multi_tool_config
multi_tool_config_tools ==
    <<FunctionTool("echo"), FunctionTool("add"), FunctionTool("multiply"),
      FunctionTool("to_uppercase"), FunctionTool("current_time"),
      FunctionTool("fetch_mock_data"),
      BaseToolInstance("JsonTool"), BaseToolInstance("CsvTool"),
      BaseToolInstance("DatabaseTool"), BaseToolInstance("TextAnalysisTool"),
      BaseToolInstance("StatisticsTool"), BaseToolInstance("PatternTool"),
      BaseToolInstance("ApiTool"), BaseToolInstance("CacheTool"),
      BaseToolInstance("RateLimiterTool"), BaseToolInstance("VisualizationTool")>>

ConfigToolObjects ==
    {FunctionTool("echo"), FunctionTool("add"), HostedTool("web_search"),
     BaseToolInstance("JsonTool"), BaseToolInstance("CsvTool"),
     PlainObject("helper")}

ConfigToolLists ==
    {multi_tool_config_tools}
    \cup UNION {[1..n -> ConfigToolObjects] : n \in 0..MaxConfigTools}

\* the filter of __init__: only instances of Tool go to the SDK Agent
agent_compatible_tools(tools) == SelectSeq(tools, LAMBDA tool : tool.isTool)

\* the loop at the end of __init__: BaseTool instances go to the registry
registered_tools(tools) == SelectSeq(tools, LAMBDA tool : tool.isBaseTool)

\* _build_instructions: the names listed after "Available tools:", in order
_build_instructions(tools) ==
    LET listed == SelectSeq(tools, LAMBDA tool :
                      (tool.isTool /\ tool.has_description) \/ tool.isBaseTool)
    IN [i \in 1..Len(listed) |->
           IF listed[i].isTool /\ listed[i].has_description
             THEN listed[i].name ELSE listed[i].class_name]

NotConstructed ==
    [constructed |-> FALSE, tools |-> <<>>, instructions |-> <<>>,
     agent_tools |-> <<>>, registry |-> <<>>]

\* multi_tool_agent = MultiToolAgent(config)
MultiToolAgentInit(tools) ==
    /\ ~mt_agent.constructed
    /\ mt_agent' = [constructed |-> TRUE, tools |-> tools,
                    instructions |-> _build_instructions(tools),
                    agent_tools |-> agent_compatible_tools(tools),
                    registry |-> registered_tools(tools)]
    /\ UNCHANGED notMultiVars

NextMulti == \E tools \in ConfigToolLists : MultiToolAgentInit(tools)

----------------------------------------------------------------------------
(* format_trace_for_display on a stored trace record.  _format_span calls  *)
(* itself for each child; the pending calls are kept as a stack of frames  *)
(* (index of the span in trace["spans"], depth of the call).               *)

MaxFmtSpans == 3

\* CPython's recursion limit (1000 frames) scaled to the traces explored
\* here: deeper than any chain of distinct spans
RecursionLimit == MaxFmtSpans + 1

FmtSpanIds == {"a", "b"}

\* What _process_span stores of a span, as far as the formatter reads it
StoredSpans == [span_id : FmtSpanIds, parent_id : FmtSpanIds \cup {None}]

StoredSpanLists == UNION {[1..n -> StoredSpans] : n \in 0..MaxFmtSpans}

\* spans_by_id = {span["span_id"]: span for span in trace["spans"]}, as the
\* list of its values: a key keeps the position of its first occurrence and
\* the value of its last one
spans_by_id_values(spans) ==
    LET first == SelectSeq([i \in 1..Len(spans) |-> i],
                     LAMBDA i : \A j \in 1..(i - 1) : spans[j].span_id # spans[i].span_id)
        last(id) == CHOOSE i \in 1..Len(spans) :
                        /\ spans[i].span_id = id
                        /\ \A j \in (i + 1)..Len(spans) : spans[j].span_id # id
    IN [k \in 1..Len(first) |-> last(spans[first[k]].span_id)]

\* root_spans = [span for span in trace["spans"] if not span["parent_id"]]
root_spans(spans) ==
    SelectSeq([i \in 1..Len(spans) |-> i], LAMBDA i : spans[i].parent_id = None)

\* child_spans = [s for s in spans_by_id.values() if s["parent_id"] == span["span_id"]]
child_spans(spans, i) ==
    SelectSeq(spans_by_id_values(spans),
              LAMBDA k : spans[k].parent_id = spans[i].span_id)

Frames(indexes, depth) ==
    [k \in 1..Len(indexes) |-> [span |-> indexes[k], depth |-> depth]]

FormatIdle == [pc |-> "idle", spans |-> <<>>, stack |-> <<>>, printed |-> <<>>]

\* GET /traces/{trace_id}/formatted on a stored record: the header is written
\* and the loop over root_spans is entered
FormatBegin(spans) ==
    /\ fmt.pc = "idle"
    /\ fmt' = [pc |-> "formatting", spans |-> spans,
               stack |-> Frames(root_spans(spans), 1), printed |-> <<>>]
    /\ UNCHANGED notFormatVars

\* one call of _format_span: the span's line is appended and the calls for its
\* children come before everything still pending; a call deeper than the
\* interpreter allows raises RecursionError
FormatSpan ==
    /\ fmt.pc = "formatting"
    /\ fmt.stack # <<>>
    /\ LET frame == Head(fmt.stack)
       IN IF frame.depth > RecursionLimit
            THEN fmt' = [fmt EXCEPT !.pc = "RecursionError"]
            ELSE fmt' = [fmt EXCEPT
                            !.printed = Append(@, frame.span),
                            !.stack = Frames(child_spans(fmt.spans, frame.span),
                                             frame.depth + 1) \o Tail(@)]
    /\ UNCHANGED notFormatVars

\* return "\n".join(output)
FormatReturn ==
    /\ fmt.pc = "formatting"
    /\ fmt.stack = <<>>
    /\ fmt' = [fmt EXCEPT !.pc = "returned"]
    /\ UNCHANGED notFormatVars

\* the response (or the 500) is sent
FormatRespond ==
    /\ fmt.pc \in {"returned", "RecursionError"}
    /\ fmt' = FormatIdle
    /\ UNCHANGED notFormatVars

NextFormat ==
    \/ \E spans \in StoredSpanLists : FormatBegin(spans)
    \/ FormatSpan
    \/ FormatReturn
    \/ FormatRespond

----------------------------------------------------------------------------
(* Specifications: one per subsystem; the other subsystems stay quiet      *)

\* The state after the modules are imported and the singletons constructed:
\* StateMachine() and ContextManager() of the shared MultiToolAgent, the
\* configured API key, the empty trace store.
Init ==
    /\ _current_state = INITIALIZING
    /\ _state_history = <<INITIALIZING>>
    /\ _context = EmptyDict
    /\ run_pc = [r \in Requests |-> "idle"]
    /\ run_input = [r \in Requests |-> NoInput]
    /\ run_tools = [r \in Requests |-> 0]
    /\ run_result = [r \in Requests |-> NoResult]
    /\ API_KEY \in ConfiguredKeys
    /\ http_pc = "idle"
    /\ http_req = [endpoint |-> Route(None, None, FALSE, None), api_key |-> None,
                   body |-> None]
    /\ http_outcome = NoOutcome
    /\ http_handler_ran = FALSE
    /\ http_resp = NoResponse
    /\ traces = <<>>
    /\ trace_ended = {}
    /\ trace_call = NoCall
    /\ _mock_db = EmptyDict
    /\ _deleted_keys = {}
    /\ db_stored = [i \in DbInterfaces |-> EmptyDict]
    /\ db_call = NoDbCall
    /\ prov_call = NoProvCall
    /\ rec_call = NoRecCall
    /\ triage_call = NoTriageCall
    /\ filter_call = NoFilterCall
    /\ guard_call = NoGuardCall
    /\ now = 0
    /\ _cache = EmptyDict
    /\ cache_sets = EmptyDict
    /\ cache_call = NoCacheCall
    /\ rl_now = 0
    /\ _request_counts = EmptyDict
    /\ rl_seen = {}
    /\ rl_call = NoRateCall
    /\ rl_rejected = [u \in BurstUrls |-> 0]
    /\ stream_pc = "idle"
    /\ stream_req = NoCount
    /\ stream_count = 0
    /\ stream_items_list = <<>>
    /\ stream_events = <<>>
    /\ tool_call = NoToolCall
    /\ sm_calls = 0
    /\ sm_view = NoView
    /\ ge_call = NoGuardrailRequest
    /\ mt_agent = NotConstructed
    /\ fmt = FormatIdle

SpecAgent == Init /\ [][NextAgent]_vars
SpecAgentConcurrent == Init /\ [][NextAgentConcurrent]_vars

SpecHttp == Init /\ [][NextHttp]_vars

SpecTrace == Init /\ [][NextTrace]_vars

SpecDb == Init /\ [][NextDb]_vars

SpecProv == Init /\ [][NextProv]_vars

SpecRec == Init /\ [][NextRec]_vars

SpecTriage == Init /\ [][NextTriage]_vars

SpecFilter == Init /\ [][NextFilter]_vars

SpecGuard == Init /\ [][NextGuard]_vars

SpecCache == Init /\ [][NextCache]_vars

SpecRate == Init /\ [][NextRate]_vars
SpecBurst == Init /\ [][NextBurst]_vars

SpecStream == Init /\ [][NextStream]_vars

SpecTool == Init /\ [][NextTool]_vars

SpecMachine == Init /\ [][NextMachine]_vars

SpecGendpoint == Init /\ [][NextGendpoint]_vars

SpecMulti == Init /\ [][NextMulti]_vars

SpecFormat == Init /\ [][NextFormat]_vars

----------------------------------------------------------------------------
(* Claims                                                                  *)

\* C1: every state change of the MultiToolAgent state machine (construction,
\* run(), the four lifecycle hooks, over consecutive runs) is a transition the
\* static table can_transition_to allows from the state held just before it.
C1_TransitionsFollowTable ==
    \A i \in 1 .. (Len(_state_history) - 1) :
        can_transition_to(_state_history[i], _state_history[i + 1])

\* C5: every key/value pair supplied in a multi-tool request's context appears,
\* with the same value, in the context returned with that request's response.
C5_ContextPreserved ==
    \A r \in Requests :
        (run_pc[r] = "done" /\ run_input[r].context.present) =>
            \A k \in DOMAIN run_input[r].context.items :
                /\ k \in DOMAIN run_result[r].context
                /\ run_result[r].context[k] = run_input[r].context.items[k]


\* C2: every HTTP endpoint that reaches an agent, an LLM provider, a guardrail,
\* a handoff or the trace store is gated behind the API key header: a request
\* that does not carry the configured key never causes the handler to run.
C2_HandlersGated ==
    (http_handler_ran /\ http_req.endpoint.reaches # "nothing")
        => (http_req.api_key # None /\ http_req.api_key = API_KEY)

\* C6: for each LLM endpoint, whenever the provider agent returns a result
\* whose status is 'error', the HTTP response has status code 400 and its
\* detail is the agent's error message.
C6_AgentErrorIs400 ==
    (http_pc = "done" /\ http_outcome.kind = "error")
        => (http_resp.status_code = 400 /\ http_resp.detail = <<http_outcome.message>>)


\* C3: at any moment the trace processor returns a record for a trace id (from
\* get_trace, and in the list from get_all_traces) exactly when a trace with
\* that id has ended and been processed since the most recent clear_traces or
\* shutdown; the record carries that trace_id; right after clear_traces no
\* trace is returned.
InAll(d, trace_id) ==
    \E i \in 1 .. Len(get_all_traces(d)) : get_all_traces(d)[i].trace_id = trace_id

C3_TraceReturnedIffEnded ==
    /\ \A id \in TraceIds :
          /\ (get_trace(traces, id) # NoTrace) <=> (id \in trace_ended)
          /\ InAll(traces, id) <=> (id \in trace_ended)
          /\ (id \in trace_ended) => get_trace(traces, id).trace_id = id
          /\ Cardinality({i \in 1 .. Len(traces) : get_all_traces(traces)[i].trace_id = id}) <= 1
    /\ (trace_call.op = "get_trace" /\ trace_call.one # NoTrace)
          => trace_call.one.trace_id \in trace_ended
    /\ (trace_call.op = "get_all_traces")
          => {trace_call.all[i].trace_id : i \in 1 .. Len(trace_call.all)} = trace_ended
    /\ (trace_call.op \in {"clear_traces", "shutdown"})
          => (get_all_traces(traces) = <<>> /\ \A id \in TraceIds : get_trace(traces, id) = NoTrace)

\* witness: a trace ended with a failing log step, one was replaced, then listed
C3_Witness ==
    /\ trace_call.op = "get_all_traces"
    /\ Len(trace_call.all) = 2
    /\ trace_ended = TraceIds


\* C4: after any sequence of store, delete and clear operations on the mock
\* database, retrieving key k succeeds and returns value v exactly when the
\* most recent store for k stored v and no delete of k and no clear happened
\* after it; in every other case the retrieval reports failure.
C4_RetrieveMatchesHistory ==
    (db_call.operation = "retrieve" /\ db_call.key # None) =>
        LET expected == db_stored[db_call.via]
        IN IF db_call.key \in DOMAIN expected
             THEN /\ db_call.result.success
                  /\ db_call.result.data = expected[db_call.key]
             ELSE ~db_call.result.success


\* C7: every provider adapter maps any prompt dict, including one in which
\* optional fields such as headers or model are present with value None, to a
\* normalized response dict without raising: the result always has the keys
\* 'status', 'message' and 'model', and status is 'success' or 'error'.
C7_NormalizedResponse ==
    (prov_call.provider # None) =>
        /\ ~prov_call.outcome.raised
        /\ {"status", "message", "model"} \subseteq DOMAIN prov_call.outcome.result
        /\ prov_call.outcome.result["status"] \in {"success", "error"}

C8_Row(task_type) ==
    IF task_type \in {S_reasoning, S_conversation, S_creative, S_code}
      THEN task_type ELSE S_default

C8_TableEntry(row, call) ==
    LET bucket == _get_length_category(call.prompt_data.prompt_length)
        provider == task_provider_mapping[row][bucket]
    IN /\ call.result.status = "success"
       /\ call.result.recommended_provider = provider
       /\ call.result.model = provider_models[provider][row]

\* C8 as stated: for every task_type string and every non-negative
\* prompt_length the recommender returns status 'success', the provider the
\* static table gives for (task_type, length bucket), the 'default' row being
\* used when task_type is not one of reasoning, conversation, creative or
\* code, and that provider's model for the task type (its default model when
\* the task type is unknown).
C8_TableLookup ==
    (rec_call.called /\ rec_call.prompt_data.task_type.str) =>
        C8_TableEntry(C8_Row(rec_call.prompt_data.task_type.chars), rec_call)

\* C8 amended: the same lookup, made with the lower-cased task_type: the row
\* of 'REASONING' or 'Code' is the row of 'reasoning' or 'code', and the
\* 'default' row is used when the lower-cased task_type is none of the four.
C8_TableLookupLowerCased ==
    (rec_call.called /\ rec_call.prompt_data.task_type.str) =>
        C8_TableEntry(C8_Row(lower(rec_call.prompt_data.task_type.chars)), rec_call)

C8_Witness ==
    /\ rec_call.called
    /\ rec_call.prompt_data.task_type = StrValue(<<"R", "E", "A", "S", "O", "N", "I", "N", "G">>)
    /\ rec_call.prompt_data.prompt_length = 8000
    /\ rec_call.result.recommended_provider = "openrouter"
    /\ rec_call.result.model = "openai/gpt-4o"

\* C9: triage assigns every message exactly one of the three agent types:
\* 'billing' exactly when the lower-cased message contains a billing keyword,
\* 'technical' exactly when it contains no billing keyword but a technical
\* keyword, and 'customer_service' otherwise.
C9_TriageByKeyword ==
    triage_call.called =>
        LET m == lower(triage_call.message)
            billing == \E i \in DOMAIN billing_keywords : contains(m, billing_keywords[i])
            technical == \E i \in DOMAIN technical_keywords :
                             contains(m, technical_keywords[i])
        IN /\ triage_call.agent_type \in {"billing", "technical", "customer_service"}
           /\ (triage_call.agent_type = "billing") <=> billing
           /\ (triage_call.agent_type = "technical") <=> (~billing /\ technical)
           /\ (triage_call.agent_type = "customer_service") <=> (~billing /\ ~technical)

C9_Witness ==
    /\ triage_call.called
    /\ triage_call.message = <<"B", "i", "l", "l", "E", "R", "R", "O", "R">>
    /\ triage_call.agent_type = "billing"

\* C10: for a message list with at least one user message, each handoff
\* filter returns exactly two messages: a new system message for the target
\* speciality, then the most recent user message of the input; no assistant
\* message, original system message or earlier user message is passed on.
C10_FilterKeepsLastUser ==
    LET ms == filter_call.messages
        users == {i \in DOMAIN ms : ms[i].role = "user"}
        last == CHOOSE i \in users : \A j \in users : j <= i
        context == CASE filter_call.filter = "billing" -> billing_context
                     [] filter_call.filter = "technical" -> technical_context
                     [] OTHER -> customer_service_context
    IN (filter_call.filter # None /\ users # {}) =>
        /\ Len(filter_call.filtered) = 2
        /\ filter_call.filtered[1] = Message("system", context)
        /\ filter_call.filtered[2] = ms[last]

C10_Witness ==
    /\ filter_call.filter = "technical"
    /\ filter_call.messages = <<Message("user", "q1"), Message("system", "q1"),
                                Message("user", "q2")>>
    /\ filter_call.filtered = <<Message("system", technical_context), Message("user", "q2")>>

\* C11: the input-length guardrail trips exactly when the input is longer
\* than 1000 characters, the output-length guardrail exactly when the text
\* form of the output is longer than 5000 characters; a text of exactly the
\* maximum length passes.
C11_LengthGuardrails ==
    /\ (guard_call.guardrail = "validate_input_length") =>
           (guard_call.output.tripwire_triggered <=> guard_call.input.n > 1000)
    /\ (guard_call.guardrail = "validate_output_length") =>
           (guard_call.output.tripwire_triggered <=>
               CASE guard_call.input.kind = "str" -> guard_call.input.n > 5000
                 [] OTHER -> FALSE)

C11_Witness ==
    /\ guard_call.guardrail = "validate_input_length"
    /\ guard_call.input.n = 1000
    /\ ~guard_call.output.tripwire_triggered

\* The value C12 expects of the lookup recorded in cache_call: the value of
\* the latest cache_set for the key if its time-to-live had not elapsed when
\* the lookup was made, no value otherwise.
C12_Expected ==
    LET key == cache_call.key
    IN IF key \in DOMAIN cache_sets
            /\ cache_call.at <= cache_sets[key].at + cache_sets[key].ttl
         THEN cache_sets[key].value ELSE None

\* C12: a cache lookup for key k returns value v exactly when the most recent
\* cache_set for k stored v and that entry's time-to-live has not yet
\* elapsed; otherwise the lookup returns no value, and an entry found expired
\* is removed by the lookup.
C12_LookupMatchesLatestSet ==
    (cache_call.operation = "get") =>
        /\ cache_call.value = C12_Expected
        /\ (cache_call.value = None) => cache_call.key \notin DOMAIN _cache

\* C13: a rate-limit check for a key with no earlier requests reports that
\* the request is allowed and reports a remaining quota of max_requests minus
\* one (4 when max_requests is 5); an allowed check consumes one unit of that
\* key's quota.
C13_FreshCheckConsumesOne ==
    (rl_call.operation = "check" /\ rl_call.fresh) =>
        /\ rl_call.allowed
        /\ rl_call.reports_remaining
        /\ rl_call.remaining = rl_call.max_requests - 1
        /\ rl_call.consumed = 1

StreamEnded == stream_pc \in {"done", "aborted"}

EventsOfType(type) == SelectSeq(stream_events, LAMBDA e : e.type = type)

\* C14: when a stream-items request specifies a count between 1 and
\* max_items, the count event announces exactly that count and the stream
\* contains exactly that many item events.
C14_CountItemsAsRequested ==
    (StreamEnded /\ stream_req.given /\ stream_req.n \in 1..max_items) =>
        /\ Len(EventsOfType("count")) = 1
        /\ EventsOfType("count")[1].n = stream_req.n
        /\ Len(EventsOfType("item")) = stream_req.n

\* C15: every item stream consists, in this order, of a status event, exactly
\* one count event, a second status event, the item events with indices
\* 1, 2, ..., N in increasing order without gaps, and finally exactly one
\* complete event whose message reports N; no event follows the complete
\* event and no item event precedes the count event.
C15_StreamShape ==
    StreamEnded =>
        LET N == Len(stream_events) - 4
        IN /\ N >= 0
           /\ stream_events[1].type = "status"
           /\ stream_events[2].type = "count"
           /\ stream_events[3].type = "status"
           /\ \A i \in 1..N : /\ stream_events[3 + i].type = "item"
                              /\ stream_events[3 + i].n = i
           /\ stream_events[N + 4].type = "complete"
           /\ stream_events[N + 4].n = N


\* C16: on an endpoint that declares the API-key dependency, a request is
\* rejected with status 401 and detail 'Unauthorized' exactly when its
\* X-API-KEY header is missing or differs from the configured key, and the
\* rejection happens before request-body validation results or any agent
\* activity are produced.
C16_UnauthorizedBeforeAnythingElse ==
    http_req.endpoint.gated =>
        LET bad_key == http_req.api_key = None \/ http_req.api_key # API_KEY
        IN /\ http_pc = "done" =>
                (http_resp = Response(401, <<"Unauthorized">>) <=> bad_key)
           /\ bad_key => /\ ~http_handler_ran
                         /\ http_pc # "handler"
                         /\ http_resp.status_code \in {0, 401}

C16_Witness ==
    /\ http_pc = "done"
    /\ http_req.endpoint.path = "/stream-items"
    /\ http_req.api_key = "wrong"
    /\ API_KEY = "secret"
    /\ http_req.body = "invalid"
    /\ http_resp = Response(401, <<"Unauthorized">>)

\* C17: the Gemini adapter validates the requested model and reverts to the
\* default if it is invalid: a request naming a model outside the
\* supported-model list is processed with the default model and the result's
\* model field names the default model, while a request naming a supported
\* model (such as gemini-2.0-pro-exp-02-05, the endpoint's default) is
\* processed with, and reports, the requested model.
C17_GeminiModelValidation ==
    (/\ prov_call.provider = "gemini"
     /\ "model" \in DOMAIN prov_call.prompt_data
     /\ ~prov_call.outcome.raised) =>
        LET requested == prov_call.prompt_data["model"]
            reported == prov_call.outcome.result["model"]
        IN /\ requested \in Gemini_supported_models => reported = requested
           /\ requested = GeminiRequest_model => reported = requested
           /\ requested \notin Gemini_supported_models \cup {GeminiRequest_model}
                  => reported = Gemini_default_model

\* The call failed inside the operation: the operation name is missing or
\* unknown, an argument the branch subscripts is missing, or the function the
\* branch calls raised.
ToolCallFailedInside ==
    \/ tool_call.operation = None
    \/ tool_call.operation \notin Operations(tool_call.tool)
    \/ ~(SubscriptedKwargs(tool_call.tool, tool_call.operation) \subseteq tool_call.given)
    \/ tool_call.behaviour = "raises"

\* C18: the execute operation of every mock tool class never raises: any
\* failure inside the operation, including an unknown operation name or a
\* missing argument, is returned as a tool result with success false and an
\* error message.
C18_ExecuteNeverRaises ==
    tool_call.tool # None =>
        /\ ~tool_call.outcome.raised
        /\ ToolCallFailedInside =>
              /\ tool_call.outcome.result.success = FALSE
              /\ tool_call.outcome.result.error # None

C18_Witness ==
    /\ tool_call.tool = "CsvTool"
    /\ tool_call.operation = "parse"
    /\ tool_call.given = {}
    /\ ~tool_call.outcome.raised
    /\ tool_call.outcome.result.success = FALSE
    /\ tool_call.outcome.result.error # None


\* The docstring's example request: {"task_type": "reasoning", "prompt_length": 200}
C19_ExampleRequest ==
    /\ rec_call.called
    /\ rec_call.prompt_data.task_type = StrValue(S_reasoning)
    /\ rec_call.prompt_data.prompt_length = 200

C20_RunOutcome ==
    [][\A r \in Requests :
        (run_pc[r] # "done" /\ run_pc'[r] = "done") =>
            /\ run_result'[r] # NoResult
            /\ _current_state' \notin {PROCESSING, EXECUTING_TOOL}
            /\ run_pc[r] = "ended" =>
                  /\ _current_state' = COMPLETED
                  /\ run_result'[r].final_output = <<"output">>
            /\ run_pc[r] # "ended" =>
                  /\ _current_state' = ERROR
                  /\ "error" \in DOMAIN run_result'[r].context
                  /\ run_result'[r].context["error"] = error_message
                  /\ run_result'[r].final_output[1] = "Error: "]_vars

C20_Witness ==
    /\ run_pc[1] = "done"
    /\ run_result[1].final_output = <<"Error: ", error_message>>
    /\ run_pc[2] = "done"
    /\ run_result[2].final_output = <<"output">>
    /\ run_tools[2] = 1
    /\ _current_state = COMPLETED

\* C21: the context returned for a multi-tool request contains only entries
\* supplied in that request or produced while handling it: no key or value
\* supplied by, or produced for, an earlier request to the same service
\* (including an earlier request's context keys, 'error' or 'tool_results')
\* appears in it.
C21_NoCarryOver ==
    \A r \in Requests :
        run_pc[r] = "done" =>
            LET returned == run_result[r].context
            IN /\ "session_id" \in DOMAIN returned =>
                     /\ run_input[r].context.present
                     /\ "session_id" \in DOMAIN run_input[r].context.items
               /\ "error" \in DOMAIN returned =>
                     run_result[r].final_output = <<"Error: ", error_message>>
               /\ "tool_results" \in DOMAIN returned => run_tools[r] > 0
               /\ "current_tool" \in DOMAIN returned => run_tools[r] > 0


\* C22: when two multi-tool requests are handled concurrently by the shared
\* agent instance, with their steps interleaved at any await point, each
\* response's context reports under 'input' the message of its own request and
\* under each supplied context key (other than 'input', which the run itself
\* writes) the value supplied by its own request.
C22_OwnInputAndContext ==
    \A r \in Requests :
        run_pc[r] = "done" =>
            LET returned == run_result[r].context
                supplied == run_input[r].context.items
            IN /\ "input" \in DOMAIN returned
               /\ returned["input"] = run_input[r].message
               /\ \A k \in (DOMAIN supplied) \ {"input"} :
                      /\ k \in DOMAIN returned
                      /\ returned[k] = supplied[k]

\* C23: the mock rate limiter allows 10 requests per minute per URL: among
\* the requests made for one URL within any 60-second window at most 10 are
\* served, every further request for that URL in the window receives status
\* 429 'Rate limit exceeded', and requests for other URLs are unaffected.
C23_TenPerWindowPerUrl ==
    /\ [](\A u \in BurstUrls : ServedInWindow(_request_counts, u) <= _max_requests)
    /\ [][\A u \in BurstUrls :
            MakeRequestBurst(u) =>
                /\ (rl_call'.status_code = 429)
                       <=> (ServedInWindow(_request_counts, u) >= _max_requests)
                /\ \A v \in BurstUrls \ {u} :
                       ServedInWindow(_request_counts', v)
                           = ServedInWindow(_request_counts, v)]_vars

C23_Witness ==
    /\ rl_call.operation = "request"
    /\ rl_call.key = HotUrl
    /\ rl_call.status_code = 429
    /\ ServedInWindow(_request_counts, HotUrl) = _max_requests
    /\ ServedInWindow(_request_counts, "https://example.org/x") = 1

\* C24: a rate-limited URL is eventually served again: requests rejected with
\* 429 are not counted against the quota, so as soon as fewer than 10 served
\* requests for the URL lie within the last 60 seconds the next request for
\* it is served, no matter how many requests were rejected in between.
C24_ServedAgainAfterRejections ==
    [][\A u \in BurstUrls :
          MakeRequestBurst(u) =>
              /\ ServedInWindow(_request_counts, u) < _max_requests
                     => /\ rl_call'.status_code # 429
                        /\ ServedInWindow(_request_counts', u)
                              = ServedInWindow(_request_counts, u) + 1
              /\ rl_call'.status_code = 429
                     => ServedInWindow(_request_counts', u)
                           = ServedInWindow(_request_counts, u)]_vars

C24_Witness ==
    /\ rl_rejected[HotUrl] = MaxRejected
    /\ rl_call.operation = "request"
    /\ rl_call.key = HotUrl
    /\ rl_call.status_code = 200
    /\ rl_now >= _window_size

\* C25: after any sequence of transitions, the state history's first element
\* is the initial state, its last element equals the current state, its length
\* is one plus the number of transition_to calls made, earlier entries are
\* never changed or removed, and mutating the list returned by state_history
\* does not alter the machine's recorded history.
C25_HistoryIsAppendOnly ==
    /\ [](/\ Len(_state_history) = 1 + sm_calls
          /\ _state_history[1] = INITIALIZING
          /\ _state_history[Len(_state_history)] = _current_state)
    /\ [][/\ Len(_state_history') >= Len(_state_history)
          /\ SubSeq(_state_history', 1, Len(_state_history)) = _state_history
          /\ (sm_view' # sm_view /\ sm_view'.mutated)
                => _state_history' = _state_history]_vars

C25_Witness ==
    /\ sm_calls = MaxTransitions
    /\ _state_history = <<INITIALIZING, COMPLETED, COMPLETED, ERROR>>
    /\ sm_view.mutated
    /\ sm_view.list = <<>>

\* One of the configured guardrails actually tripped on the request
GuardrailTripped ==
    \/ ge_call.run.kind = "tripwire"
    \/ /\ ge_call.path = "/guardrails/test-output"
       /\ \E g \in output_guardrails : ge_call.outcomes[g] = "trips"

\* C26: a guardrail endpoint reports guardrail_triggered = true only when one
\* of the configured guardrails actually tripped on the request; a failure
\* that is not a guardrail tripwire (for example an exception raised while
\* creating or running the agent) is not reported as a triggered guardrail.
C26_TriggeredOnlyByTripwire ==
    (ge_call.response.returned /\ ge_call.response.guardrail_triggered)
        => GuardrailTripped

\* C27: every tool named under "Available tools" in the instructions given to
\* the SDK agent is in the tool list handed to that agent, so the agent is
\* never told about a tool it cannot invoke.
C27_NamedToolsAreInvocable ==
    mt_agent.constructed =>
        \A i \in 1..Len(mt_agent.instructions) :
            \E j \in 1..Len(mt_agent.agent_tools) :
                mt_agent.agent_tools[j].name = mt_agent.instructions[i]

\* How many lines of the output are the line of span number i of the record
TimesPrinted(i) == Cardinality({k \in 1..Len(fmt.printed) : fmt.printed[k] = i})

\* C28: formatting a stored trace for display terminates for every trace
\* record the processor can store, whatever the span_id and parent_id values
\* of its spans (including spans that name themselves or each other as
\* parent, or that share a span_id), and prints each span at most once.
C28_FormatTerminatesPrintingOnce ==
    /\ fmt.pc # "RecursionError"
    /\ \A i \in 1..Len(fmt.spans) : TimesPrinted(i) <= 1

====
